---- MODULE Spec2Model ----
(***************************************************************************)
(* A model of finch's agent core (src/src/agent/agent.ts): the tool-call   *)
(* parser, the response cleaner, the streaming callback, the bounded       *)
(* tool-calling loop of chat, and the per-user history cache kept beside   *)
(* the durable conversation store.                                         *)
(*                                                                         *)
(* Text is a sequence of one-character strings.  The lexemes inside a      *)
(* JSON payload (quoted strings, numbers, null) are single elements; the   *)
(* braces, brackets, colons, commas, white space, the tags and the fences  *)
(* are spelled out character by character, since the regular expressions   *)
(* of the code look at exactly those.                                      *)
(***************************************************************************)
EXTENDS Integers, Sequences, FiniteSets, TLC

\* ------------------------------------------------------------------ text

OpenTag == <<"<", "t", "o", "o", "l", "_", "c", "a", "l", "l", ">">>

CloseTag == <<"<", "/", "t", "o", "o", "l", "_", "c", "a", "l", "l", ">">>

\* the backquote character of a code fence (a TLA+ string cannot hold the
\* backquote itself, so the model writes it as the quote)
BQ == "'"

Fence == <<BQ, BQ, BQ>>

JsonFence == <<BQ, BQ, BQ, "j", "s", "o", "n">>

QName == "\"name\""

QArguments == "\"arguments\""

QToolCalls == "\"tool_calls\""

\* \s of the regular expressions, and JSON white space
IsWs(c) == c \in {" ", "\n"}

MinOf(S) == CHOOSE x \in S : \A y \in S : x <= y

MaxOf(S) == CHOOSE x \in S : \A y \in S : x >= y

\* pat occurs in s at index i
MatchAt(s, i, pat) ==
    /\ i >= 1
    /\ i + Len(pat) - 1 <= Len(s)
    /\ \A k \in 1..Len(pat) : s[i + k - 1] = pat[k]

RECURSIVE IndexFrom(_, _, _)
\* index of the first occurrence of pat in s at or after from; 0 when none
IndexFrom(s, pat, from) ==
    IF from + Len(pat) - 1 > Len(s) THEN 0
    ELSE IF MatchAt(s, from, pat) THEN from
    ELSE IndexFrom(s, pat, from + 1)

RECURSIVE SkipWs(_, _)
\* the index after a greedy \s* that starts at i
SkipWs(s, i) == IF i <= Len(s) /\ IsWs(s[i]) THEN SkipWs(s, i + 1) ELSE i

RECURSIVE SkipWsBack(_, _)
\* the index before the white space that ends at i
SkipWsBack(s, i) == IF i >= 1 /\ IsWs(s[i]) THEN SkipWsBack(s, i - 1) ELSE i

\* String.prototype.trim
Trim(s) == SubSeq(s, SkipWs(s, 1), SkipWsBack(s, Len(s)))

\* String.prototype.includes
Includes(s, pat) == IndexFrom(s, pat, 1) # 0

\* ------------------------------------------------------------ JSON.parse
\* A parsed value: t is its type, s the text of a string or number, e the
\* elements of an array or the members [k, v] of an object.

JStrings ==
    {QName, QArguments, QToolCalls, "\"shell\"", "\"nope\"", "\"\"", "\"a\"",
     "\"command\"", "\"ls\"", "\"timeout\""}

JNumbers == {"0", "1"}

JUndefined == [t |-> "undefined", s |-> "", e |-> <<>>]

JNull == [t |-> "null", s |-> "", e |-> <<>>]

JFail == [ok |-> FALSE, v |-> JUndefined, n |-> 0]

RECURSIVE ParseValue(_, _)
RECURSIVE ParseMembers(_, _, _)
RECURSIVE ParseElements(_, _, _)

\* the members of an object after its "{" (or after a comma), i at a key
ParseMembers(s, i, acc) ==
    IF i > Len(s) \/ s[i] \notin JStrings THEN JFail
    ELSE LET c == SkipWs(s, i + 1)
         IN  IF c > Len(s) \/ s[c] # ":" THEN JFail
             ELSE LET r == ParseValue(s, c + 1)
                  IN  IF ~r.ok THEN JFail
                      ELSE LET j == SkipWs(s, r.n)
                               got == Append(acc, [k |-> s[i], v |-> r.v])
                           IN  IF j > Len(s) THEN JFail
                               ELSE IF s[j] = "}"
                                    THEN [ok |-> TRUE,
                                          v |-> [t |-> "object", s |-> "", e |-> got],
                                          n |-> j + 1]
                               ELSE IF s[j] = ","
                                    THEN ParseMembers(s, SkipWs(s, j + 1), got)
                               ELSE JFail

\* the elements of an array after its "[" (or after a comma)
ParseElements(s, i, acc) ==
    LET r == ParseValue(s, i)
    IN  IF ~r.ok THEN JFail
        ELSE LET j == SkipWs(s, r.n)
                 got == Append(acc, r.v)
             IN  IF j > Len(s) THEN JFail
                 ELSE IF s[j] = "]"
                      THEN [ok |-> TRUE,
                            v |-> [t |-> "array", s |-> "", e |-> got],
                            n |-> j + 1]
                 ELSE IF s[j] = ","
                      THEN ParseElements(s, j + 1, got)
                 ELSE JFail

\* one JSON value starting at or after i; n is the index after it
ParseValue(s, i) ==
    LET j == SkipWs(s, i)
    IN  IF j > Len(s) THEN JFail
        ELSE IF s[j] = "{"
             THEN LET k == SkipWs(s, j + 1)
                  IN  IF k <= Len(s) /\ s[k] = "}"
                      THEN [ok |-> TRUE,
                            v |-> [t |-> "object", s |-> "", e |-> <<>>],
                            n |-> k + 1]
                      ELSE ParseMembers(s, k, <<>>)
        ELSE IF s[j] = "["
             THEN LET k == SkipWs(s, j + 1)
                  IN  IF k <= Len(s) /\ s[k] = "]"
                      THEN [ok |-> TRUE,
                            v |-> [t |-> "array", s |-> "", e |-> <<>>],
                            n |-> k + 1]
                      ELSE ParseElements(s, k, <<>>)
        ELSE IF s[j] \in JStrings
             THEN [ok |-> TRUE, v |-> [t |-> "string", s |-> s[j], e |-> <<>>], n |-> j + 1]
        ELSE IF s[j] \in JNumbers
             THEN [ok |-> TRUE, v |-> [t |-> "number", s |-> s[j], e |-> <<>>], n |-> j + 1]
        ELSE IF MatchAt(s, j, <<"n", "u", "l", "l">>)
             THEN [ok |-> TRUE, v |-> JNull, n |-> j + 4]
        ELSE JFail

\* JSON.parse: ok is FALSE where it throws
JSONParse(s) ==
    LET r == ParseValue(s, 1)
    IN  IF r.ok /\ SkipWs(s, r.n) > Len(s) THEN r ELSE JFail

\* property access obj.key; undefined when absent or when obj has no members
Prop(obj, key) ==
    IF obj.t # "object" THEN JUndefined
    ELSE LET hits == {i \in 1..Len(obj.e) : obj.e[i].k = key}
         IN  IF hits = {} THEN JUndefined ELSE obj.e[MaxOf(hits)].v

\* JavaScript truthiness
Truthy(v) ==
    CASE v.t = "string" -> v.s # "\"\""
      [] v.t = "number" -> v.s # "0"
      [] v.t \in {"object", "array"} -> TRUE
      [] OTHER -> FALSE

\* typeof v === "object"
TypeofObject(v) == v.t \in {"object", "array", "null"}

\* ------------------------------------------------------- parseToolCalls
\* A regular-expression match: at is 0 when there is none, json is capture
\* group 1 and next the lastIndex a /g loop resumes from.

NoMatch == [at |-> 0, json |-> <<>>, next |-> 0]

RECURSIVE GroupEnd(_, _, _)
\* the first "}" at or after b that \s* and close follow; 0 when none
GroupEnd(s, b, close) ==
    IF b > Len(s) THEN 0
    ELSE IF s[b] = "}" /\ MatchAt(s, SkipWs(s, b + 1), close) THEN b
    ELSE GroupEnd(s, b + 1, close)

RECURSIVE LazyMatch(_, _, _, _)
\* the leftmost match at or after from of  open \s*(\{[\s\S]*?\})\s* close
\* (the lazy quantifier stops at the first "}" that lets the rest match)
LazyMatch(s, from, open, close) ==
    LET i == IndexFrom(s, open, from)
        a == SkipWs(s, i + Len(open))
        b == IF a <= Len(s) /\ s[a] = "{" THEN GroupEnd(s, a + 1, close) ELSE 0
    IN  IF i = 0 THEN NoMatch
        ELSE IF b = 0 THEN LazyMatch(s, i + 1, open, close)
        ELSE [at |-> i, json |-> SubSeq(s, a, b), next |-> SkipWs(s, b + 1) + Len(close)]

\* toolCallClosedRegex = /<tool_call>\s*(\{[\s\S]*?\})\s*<\/tool_call>/g
ClosedMatch(s, from) == LazyMatch(s, from, OpenTag, CloseTag)

RECURSIVE LastBrace(_, _)
\* the last "}" of s at or before b; 0 when none
LastBrace(s, b) ==
    IF b < 1 THEN 0 ELSE IF s[b] = "}" THEN b ELSE LastBrace(s, b - 1)

RECURSIVE OpenMatch(_, _)
\* toolCallOpenRegex = /<tool_call>\s*(\{[\s\S]*\})/g : the greedy group runs
\* to the last "}" of the text
OpenMatch(s, from) ==
    LET i == IndexFrom(s, OpenTag, from)
        a == SkipWs(s, i + Len(OpenTag))
        b == IF a <= Len(s) /\ s[a] = "{" THEN LastBrace(s, Len(s)) ELSE 0
    IN  IF i = 0 THEN NoMatch
        ELSE IF b <= a THEN OpenMatch(s, i + 1)
        ELSE [at |-> i, json |-> SubSeq(s, a, b), next |-> b + 1]

\* jsonBlockRegex = /```json\s*(\{[\s\S]*?\})\s*```/g
BlockMatch(s, from) == LazyMatch(s, from, JsonFence, Fence)

RECURSIVE InnerScan(_, _, _)
\* the end of /^\{[^{}]*(?:\{[^{}]*\}[^{}]*)*\}/ in s, scanning from i at
\* brace depth d; 0 when the expression does not match (it knows one level
\* of nested braces and no more)
InnerScan(s, i, d) ==
    IF i > Len(s) THEN 0
    ELSE IF s[i] = "{" THEN (IF d = 2 THEN 0 ELSE InnerScan(s, i + 1, d + 1))
    ELSE IF s[i] = "}" THEN (IF d = 1 THEN i ELSE InnerScan(s, i + 1, d - 1))
    ELSE InnerScan(s, i + 1, d)

\* jsonStr.match(/^\{[^{}]*(?:\{[^{}]*\}[^{}]*)*\}/) : the matched prefix,
\* <<>> for null
InnerMatch(jsonStr) ==
    LET e == InnerScan(jsonStr, 2, 1)
    IN  IF e = 0 THEN <<>> ELSE SubSeq(jsonStr, 1, e)

\* parsed.name && typeof parsed.arguments === "object"
ValidCall(parsed) ==
    Truthy(Prop(parsed, QName)) /\ TypeofObject(Prop(parsed, QArguments))

MkCall(parsed) == [name |-> Prop(parsed, QName), arguments |-> Prop(parsed, QArguments)]

\* the body of the try block of formats 1a and 1b for one jsonStr
CallsOfJson(jsonStr) ==
    LET r == JSONParse(jsonStr)
    IN  IF r.ok /\ ValidCall(r.v) THEN <<MkCall(r.v)>> ELSE <<>>

RECURSIVE ClosedCalls(_, _)
\* the while loop of format 1a
ClosedCalls(s, from) ==
    LET m == ClosedMatch(s, from)
    IN  IF m.at = 0 THEN <<>>
        ELSE CallsOfJson(m.json) \o ClosedCalls(s, m.next)

\* the try/catch of format 1b for one jsonStr
OpenCallsOfJson(jsonStr) ==
    IF JSONParse(jsonStr).ok THEN CallsOfJson(jsonStr)
    ELSE LET inner == InnerMatch(jsonStr)
         IN  IF inner = <<>> THEN <<>> ELSE CallsOfJson(inner)

RECURSIVE OpenCalls(_, _)
\* the while loop of format 1b
OpenCalls(s, from) ==
    LET m == OpenMatch(s, from)
    IN  IF m.at = 0 THEN <<>>
        ELSE OpenCallsOfJson(m.json) \o OpenCalls(s, m.next)

RECURSIVE ArrayCalls(_, _)
\* for (const call of parsed.tool_calls), from entry i: reading call.name of
\* a null entry throws, which the enclosing catch takes as invalid JSON, so
\* the entries after it are not looked at
ArrayCalls(arr, i) ==
    IF i > Len(arr) THEN <<>>
    ELSE IF arr[i].t = "null" THEN <<>>
    ELSE (IF ValidCall(arr[i]) THEN <<MkCall(arr[i])>> ELSE <<>>) \o ArrayCalls(arr, i + 1)

\* the try block of format 2 for one jsonStr
BlockCallsOfJson(jsonStr) ==
    LET r == JSONParse(jsonStr)
        list == Prop(r.v, QToolCalls)
    IN  IF r.ok /\ list.t = "array" THEN ArrayCalls(list.e, 1) ELSE <<>>

RECURSIVE BlockCalls(_, _)
\* the while loop of format 2
BlockCalls(s, from) ==
    LET m == BlockMatch(s, from)
    IN  IF m.at = 0 THEN <<>>
        ELSE BlockCallsOfJson(m.json) \o BlockCalls(s, m.next)

\* a parser that gathers the requests of all three formats
parseToolCallsAll(response) ==
    ClosedCalls(response, 1) \o OpenCalls(response, 1) \o BlockCalls(response, 1)

parseToolCalls(response) ==
    LET closed == ClosedCalls(response, 1)
        open == OpenCalls(response, 1)
    IN  IF Len(closed) > 0 THEN closed
        ELSE IF Len(open) > 0 THEN open
        ELSE BlockCalls(response, 1)

\* -------------------------------------------------------- cleanResponse

RECURSIVE StripClosed(_, _)
\* .replace(/<tool_call>[\s\S]*?<\/tool_call>/g, ""), from index from
StripClosed(s, from) ==
    LET i == IndexFrom(s, OpenTag, from)
        j == IF i = 0 THEN 0 ELSE IndexFrom(s, CloseTag, i + Len(OpenTag))
    IN  IF j = 0 THEN SubSeq(s, from, Len(s))
        ELSE SubSeq(s, from, i - 1) \o StripClosed(s, j + Len(CloseTag))

\* .replace(/<tool_call>[\s\S]*$/g, "")
StripUnclosed(s) ==
    LET i == IndexFrom(s, OpenTag, 1)
    IN  IF i = 0 THEN s ELSE SubSeq(s, 1, i - 1)

RECURSIVE MarkupEnd(_, _, _)
\* the first "}" at or after b that \s* and a fence follow and "tool_calls"
\* precedes (seen says it was met); 0 when none
MarkupEnd(s, b, seen) ==
    IF b > Len(s) THEN 0
    ELSE IF seen /\ s[b] = "}" /\ MatchAt(s, SkipWs(s, b + 1), Fence) THEN b
    ELSE MarkupEnd(s, b + 1, seen \/ s[b] = QToolCalls)

RECURSIVE BlockMarkupMatch(_, _)
\* the leftmost match at or after from of
\* /```json\s*\{[\s\S]*?"tool_calls"[\s\S]*?\}\s*```/ : at is its start and
\* next the index after it
BlockMarkupMatch(s, from) ==
    LET i == IndexFrom(s, JsonFence, from)
        a == SkipWs(s, i + Len(JsonFence))
        b == IF a <= Len(s) /\ s[a] = "{" THEN MarkupEnd(s, a + 1, FALSE) ELSE 0
    IN  IF i = 0 THEN NoMatch
        ELSE IF b = 0 THEN BlockMarkupMatch(s, i + 1)
        ELSE [at |-> i, json |-> <<>>, next |-> SkipWs(s, b + 1) + Len(Fence)]

RECURSIVE StripBlocks(_, _)
\* .replace(/```json\s*\{[\s\S]*?"tool_calls"[\s\S]*?\}\s*```/g, "")
StripBlocks(s, from) ==
    LET m == BlockMarkupMatch(s, from)
    IN  IF m.at = 0 THEN SubSeq(s, from, Len(s))
        ELSE SubSeq(s, from, m.at - 1) \o StripBlocks(s, m.next)

cleanResponse(response) ==
    Trim(StripBlocks(StripUnclosed(StripClosed(response, 1)), 1))

\* ------------------------------------------------------------ the agent

\* bounds of the model
MaxTurns == 2

MaxToolCallsBound == 2

MaxHistoryBound == 1

MaxCuts == 1

MaxAdmin == 1

Users == {"u1", "u2"}

Turns == 1..MaxTurns

\* the names tools are registered under (src/src/tools/shell.ts)
ToolNames == {"shell"}

VARIABLES
    maxToolCalls,       \* config.maxToolCalls ?? 10
    maxHistoryLength,   \* config.maxHistoryLength ?? 20
    toolRegistry,       \* the entries of the Map, in insertion order of their keys
    historyCache,       \* userId -> entries; no entry of the Map reads as <<>>
    durable,            \* the store's conversation history, userId -> entries
    turn,               \* the locals of each call of chat, and what it did
    load,               \* the call of loadHistory in flight
    clear,              \* the call of clearHistory in flight
    admin               \* loadHistory / clearHistory / addTool calls still to come

vars == <<maxToolCalls, maxHistoryLength, toolRegistry, historyCache, durable,
          turn, load, clear, admin>>

Entry(role, content) == [role |-> role, content |-> content]

\* the text of a quoted JSON string
Unquote(q) ==
    CASE q = "\"shell\"" -> "shell"
      [] q = "\"nope\"" -> "nope"
      [] q = "\"a\"" -> "a"
      [] q = "\"command\"" -> "command"
      [] q = "\"ls\"" -> "ls"
      [] q = QName -> "name"
      [] q = QArguments -> "arguments"
      [] q = QToolCalls -> "tool_calls"
      [] OTHER -> ""

\* `${call.name}`, which is also the only key a registered tool can be found
\* under (a name that is no string is the key of no tool)
NameText(v) ==
    CASE v.t = "string" -> Unquote(v.s)
      [] v.t = "number" -> v.s
      [] v.t = "array" -> "(array)"
      [] OTHER -> "[object Object]"

\* a Tool object: its name, and whether defineTool built it, so that execute
\* parses the arguments with the declared schema before the body runs, or
\* the caller wrote the object, execute being the body itself
DefinedTool(name) == [name |-> name, kind |-> "defineTool"]

PlainTool(name) == [name |-> name, kind |-> "plain"]

\* what Map.prototype.get returns for a key the Map does not hold
undefined == [name |-> "", kind |-> "undefined"]

\* Map.prototype.keys, as an array
MapKeys(map) == [i \in 1..Len(map) |-> map[i].key]

\* Map.prototype.get
MapGet(map, key) ==
    IF \E i \in 1..Len(map) : map[i].key = key
    THEN map[CHOOSE i \in 1..Len(map) : map[i].key = key].value
    ELSE undefined

\* a Map that keeps every entry ever set, a lookup finding the oldest
MapSetAppend(map, key, value) == Append(map, [key |-> key, value |-> value])

\* Map.prototype.set: the value of a key the Map holds is replaced where the
\* entry is, and a new key joins the end
MapSet(map, key, value) ==
    IF \E i \in 1..Len(map) : map[i].key = key
    THEN [i \in 1..Len(map) |-> IF map[i].key = key
                                THEN [key |-> key, value |-> value] ELSE map[i]]
    ELSE Append(map, [key |-> key, value |-> value])

RECURSIVE MapOf(_, _)
\* new Map(tools.map((t) => [t.name, t])): the pairs are set in order, from
\* pair i on, on the Map built so far
MapOf(tools, map) ==
    IF Len(tools) = 0 THEN map
    ELSE MapOf(Tail(tools), MapSet(map, Head(tools).name, Head(tools)))

IsRegistered(v) ==
    v.t = "string" /\ MapGet(toolRegistry, Unquote(v.s)) # undefined

\* the locals of a call of chat before it is made
IdleTurn ==
    [pc |-> "idle", userId |-> "", userMessage |-> <<>>, onChunk |-> FALSE,
     onToolCall |-> FALSE, history |-> <<>>, messages |-> <<>>, attached |-> FALSE, iterations |-> 0,
     isFirstResponse |-> TRUE, response |-> <<>>, toolCalls |-> <<>>, idx |-> 0,
     availableToolNames |-> <<>>, tool |-> undefined, results |-> <<>>,
     cleaned |-> <<>>, err |-> "",
     \* what the call did, in order; prompts holds the message list as each
     \* model call was given it
     llmCalls |-> <<>>, prompts |-> <<>>, responses |-> <<>>, rounds |-> 0,
     toolLog |-> <<>>,
     outcomes |-> <<>>, sent |-> <<>>, pushed |-> <<>>, saved |-> <<>>]

\* buildSystemPrompt: the base prompt alone when no tool is registered
buildSystemPrompt(tools) ==
    IF Len(tools) = 0 THEN <<"You are Finch">>
    ELSE <<"You are Finch", "## Tools">> \o tools

RECURSIVE Join(_, _)
\* Array.prototype.join with separator sep
Join(list, sep) ==
    IF Len(list) = 0 THEN <<>>
    ELSE IF Len(list) = 1 THEN list[1]
    ELSE list[1] \o <<sep>> \o Join(Tail(list), sep)

\* formatToolError
formatToolError(type, toolName, message, details, availableTools) ==
    CASE type = "unknown_tool" ->
            <<"Error:", " Unknown tool ", toolName, ". ">>
            \o (IF Len(availableTools) > 0
                THEN <<"Available tools: ">> \o Join([i \in 1..Len(availableTools) |-> <<availableTools[i]>>], ", ")
                ELSE <<>>)
      [] type = "invalid_arguments" ->
            <<"Error:", " Invalid arguments for ", toolName, ": ", message>>
            \o (IF details # "" THEN <<"\nDetails: ", details>> ELSE <<>>)
      [] type = "execution_failed" ->
            <<"Error:", " Tool ", toolName, " failed: ", message>>
      [] type = "timeout" ->
            <<"Error:", " Tool ", toolName, " timed out after ",
              (IF details # "" THEN details ELSE "unknown"), " ms">>
      [] OTHER -> <<"Error:", " ", message>>

\* a loop that admits one round more: while (iterations <= maxToolCalls)
LoopGuardLE(iterations) == iterations <= maxToolCalls

\* while (iterations < maxToolCalls)
LoopGuard(iterations) == iterations < maxToolCalls

\* a loop whose call after the last round streams like the calls of the rounds
LoopHeadStreamed(tr) ==
    IF tr.iterations < maxToolCalls
    THEN [tr EXCEPT !.iterations = @ + 1, !.pc = "llm",
                    !.llmCalls = Append(@, IF tr.onChunk THEN "chatStream" ELSE "chat"),
                    !.prompts = Append(@, tr.messages)]
    ELSE [tr EXCEPT !.pc = "final",
                    !.llmCalls = Append(@, IF tr.onChunk THEN "chatStream" ELSE "chat"),
                    !.prompts = Append(@, tr.messages)]

\* the head of the while loop up to its await, or the forced final call
LoopHead(tr) ==
    IF LoopGuard(tr.iterations)
    THEN [tr EXCEPT !.iterations = @ + 1, !.pc = "llm",
                    !.llmCalls = Append(@, IF tr.onChunk THEN "chatStream" ELSE "chat"),
                    !.prompts = Append(@, tr.messages)]
    ELSE [tr EXCEPT !.pc = "final", !.llmCalls = Append(@, "chat"),
                    !.prompts = Append(@, tr.messages)]

\* results.some((r) => r.includes("Error:"))
HasErrorsAnywhere(results) ==
    \E i \in 1..Len(results) : \E j \in 1..Len(results[i]) : results[i][j] = "Error:"

\* results.some((r) => r.startsWith("Error:"))
HasErrors(results) == \E i \in 1..Len(results) : results[i][1] = "Error:"

\* an end of a round that puts the cleaned response on the message list
FinishRoundCleaned(tr) ==
    LET feedbackMessage ==
            <<"Tool results:\n">> \o Join(tr.results, "\n\n")
            \o (IF HasErrors(tr.results)
                THEN <<"\n\nSome tool calls failed. You may retry with corrected arguments, try a different approach, or explain the issue to the user.">>
                ELSE <<"\n\nContinue your response based on these results.">>)
    IN  LoopHead([tr EXCEPT
            !.messages = @ \o <<Entry("assistant", cleanResponse(tr.response)),
                                Entry("user", feedbackMessage)>>,
            !.rounds = @ + 1])

\* an end of a round that puts the feedback message on the message list as
\* a system message
FinishRoundSystemFeedback(tr) ==
    LET feedbackMessage ==
            <<"Tool results:\n">> \o Join(tr.results, "\n\n")
            \o (IF HasErrors(tr.results)
                THEN <<"\n\nSome tool calls failed. You may retry with corrected arguments, try a different approach, or explain the issue to the user.">>
                ELSE <<"\n\nContinue your response based on these results.">>)
    IN  LoopHead([tr EXCEPT
            !.messages = @ \o <<Entry("assistant", tr.response), Entry("system", feedbackMessage)>>,
            !.rounds = @ + 1])

\* the end of a round: the raw response and the feedback message join the
\* message list, and the loop goes on
FinishRound(tr) ==
    LET feedbackMessage ==
            <<"Tool results:\n">> \o Join(tr.results, "\n\n")
            \o (IF HasErrors(tr.results)
                THEN <<"\n\nSome tool calls failed. You may retry with corrected arguments, try a different approach, or explain the issue to the user.">>
                ELSE <<"\n\nContinue your response based on these results.">>)
    IN  LoopHead([tr EXCEPT
            !.messages = @ \o <<Entry("assistant", tr.response), Entry("user", feedbackMessage)>>,
            !.rounds = @ + 1])

\* an entry of the log of what a turn did with its parsed requests: the
\* observer was told, execute was invoked, or a result was pushed, for
\* request i of the round, with the keys of the registry at that moment
ToolEvent(ev, tr, i) ==
    [ev |-> ev, round |-> tr.iterations, i |-> i,
     name |-> NameText(tr.toolCalls[i].name), registry |-> MapKeys(toolRegistry)]

RECURSIVE RunCallsKnownOnly(_, _)
\* a for loop that tells the observer only of the tools it is about to execute
RunCallsKnownOnly(tr, i) ==
    IF i > Len(tr.toolCalls) THEN FinishRound(tr)
    ELSE LET call == tr.toolCalls[i]
             name == NameText(call.name)
         IN  IF ~IsRegistered(call.name)
             THEN RunCallsKnownOnly([tr EXCEPT
                      !.toolLog = Append(@, ToolEvent("result", tr, i)),
                      !.outcomes = Append(@, "unknown_tool"),
                      !.results = Append(@, formatToolError("unknown_tool", name, "",
                                                            "", tr.availableToolNames))],
                      i + 1)
             ELSE [tr EXCEPT !.pc = "tool", !.idx = i,
                             !.tool = MapGet(toolRegistry, Unquote(call.name.s)),
                             !.toolLog = (IF tr.onToolCall
                                          THEN Append(@, ToolEvent("onToolCall", tr, i))
                                          ELSE @)
                                         \o <<ToolEvent("execute", tr, i)>>]

RECURSIVE RunCalls(_, _)
\* for (const call of toolCalls), from call i up to the next await
RunCalls(tr, i) ==
    IF i > Len(tr.toolCalls) THEN FinishRound(tr)
    ELSE LET call == tr.toolCalls[i]
             name == NameText(call.name)
             told == IF tr.onToolCall
                     THEN Append(tr.toolLog, ToolEvent("onToolCall", tr, i))
                     ELSE tr.toolLog
         IN  IF ~IsRegistered(call.name)
             THEN RunCalls([tr EXCEPT
                      !.toolLog = Append(told, ToolEvent("result", tr, i)),
                      !.outcomes = Append(@, "unknown_tool"),
                      !.results = Append(@, formatToolError("unknown_tool", name, "",
                                                            "", tr.availableToolNames))],
                      i + 1)
             ELSE [tr EXCEPT !.pc = "tool", !.idx = i,
                             !.tool = MapGet(toolRegistry, Unquote(call.name.s)),
                             !.toolLog = Append(told, ToolEvent("execute", tr, i))]

\* what a call of tool.execute may do: resolve with success true or false,
\* or throw a ZodError, an Error whose message has "timed out", or another
ToolOutcomes == {"success", "failure", "ZodError", "timed out", "threw"}

\* and two outcomes in particular: the tool resolves with success true and an
\* output that starts with "Error:"; and execAsync of shellTool rejects
\* because the timeout elapsed and the command was killed, which the catch
\* of shellTool turns into a result with success false and, as error, the
\* stderr of the command, here empty
FurtherOutcomes == {"success Error:", "killed"}

\* the parameters of shellTool, z.object({command: z.string(), cwd:
\* z.string().optional(), timeout: z.number().default(30000)}): whether
\* .parse accepts the arguments
shellParameters(arguments) ==
    /\ arguments.t = "object"
    /\ Prop(arguments, "\"command\"").t = "string"
    /\ Prop(arguments, "\"cwd\"").t \in {"string", "undefined"}
    /\ Prop(arguments, "\"timeout\"").t \in {"number", "undefined"}

\* tool.execute(call.arguments) for a tool that declares the parameters of
\* shellTool, when the body given to it would end with outcome body: the
\* execute of defineTool parses the arguments first and throws the ZodError
\* of a failed parse; the execute of a plain object is the body
execute(tool, arguments, body) ==
    IF tool.kind = "defineTool" /\ ~shellParameters(arguments) THEN "ZodError"
    ELSE body

\* a catch that reports only the exceptions it knows, and passes the message
\* of any other on as the result
ResultOfKnown(outcome, name) ==
    CASE outcome = "success" -> <<"[", name, "] ", "output">>
      [] outcome = "failure" ->
            formatToolError("execution_failed", name, "tool error", "", <<>>)
      [] outcome = "ZodError" ->
            formatToolError("invalid_arguments", name, "Validation failed", "a: Required", <<>>)
      [] outcome = "timed out" ->
            formatToolError("timeout", name, "Command timed out", "30000", <<>>)
      [] outcome = "success Error:" -> <<"[", name, "] ", "Error:", " denied">>
      [] outcome = "killed" ->
            formatToolError("execution_failed", name, "", "", <<>>)
      [] OTHER -> <<"[", name, "] ", "boom">>

\* the result pushed for an outcome of tool.execute (the try/catch)
ResultOf(outcome, name) ==
    CASE outcome = "success" -> <<"[", name, "] ", "output">>
      [] outcome = "failure" ->
            formatToolError("execution_failed", name, "tool error", "", <<>>)
      [] outcome = "ZodError" ->
            formatToolError("invalid_arguments", name, "Validation failed", "a: Required", <<>>)
      [] outcome = "timed out" ->
            formatToolError("timeout", name, "Command timed out", "30000", <<>>)
      [] outcome = "success Error:" -> <<"[", name, "] ", "Error:", " denied">>
      [] outcome = "killed" ->
            formatToolError("execution_failed", name, "", "", <<>>)
      [] OTHER -> formatToolError("execution_failed", name, "boom", "", <<>>)

\* the streaming callback of chat for one chunk; st is [call, buffer,
\* toolCallDetected, sent], and a call of onChunk is logged with the number
\* of the model call and the index in its response of the first character
\* passed
StreamChunk(st, chunk, isFirstResponse) ==
    LET buffer == st.buffer \o chunk
        entering == Includes(buffer, OpenTag) /\ ~st.toolCallDetected
        beforeToolCall == SubSeq(buffer, 1, IndexFrom(buffer, OpenTag, 1) - 1)
        sent1 == IF entering /\ beforeToolCall # <<>> /\ isFirstResponse
                 THEN Append(st.sent, [call |-> st.call, at |-> 1, text |-> beforeToolCall])
                 ELSE st.sent
        detected == st.toolCallDetected \/ entering
        sent2 == IF ~detected /\ isFirstResponse
                 THEN Append(sent1, [call |-> st.call, at |-> Len(st.buffer) + 1, text |-> chunk])
                 ELSE sent1
    IN  [call |-> st.call, buffer |-> buffer, toolCallDetected |-> detected, sent |-> sent2]

RECURSIVE Stream(_, _, _, _, _)
\* llm.chatStream delivering response r in the chunks that end at the
\* indices in cuts (and at the end of r), from index from on
Stream(r, cuts, from, st, isFirstResponse) ==
    IF from > Len(r) THEN st
    ELSE LET later == {c \in cuts : c >= from}
             to == IF later = {} THEN Len(r) ELSE MinOf(later)
         IN  Stream(r, cuts, to + 1,
                    StreamChunk(st, SubSeq(r, from, to), isFirstResponse),
                    isFirstResponse)

RECURSIVE CutSets(_, _)
\* the ways of cutting a text of length n in at most k places
CutSets(n, k) ==
    IF k = 0 THEN {{}}
    ELSE CutSets(n, k - 1) \cup {c \cup {i} : c \in CutSets(n, k - 1), i \in 1..(n - 1)}

\* a chat that records the user message in the cache before the model answers
CacheAtStartEager(cache, tr) ==
    [cache EXCEPT ![tr.userId] = @ \o <<[role |-> "user", content |-> tr.userMessage]>>]

\* a cache that keeps one history for all users, under the key of the last
HistoryOfShared(cache, userId) == cache["u2"]

\* historyCache.get(userId) ?? []
HistoryOf(cache, userId) == cache[userId]

\* "Prepare cache reference (don't save yet - wait for successful response)":
\* an empty array is set when the Map has none, and nothing is pushed
CacheAtStart(cache, tr) == cache

\* a push that puts the assistant entry first
PushTurnAssistantFirst(cache, tr, assistantResponse) ==
    IF tr.attached
    THEN [cache EXCEPT ![tr.userId] =
            @ \o <<[role |-> "assistant", content |-> assistantResponse],
                   [role |-> "user", content |-> tr.userMessage]>>]
    ELSE cache

\* cached.push of the two entries of the turn, which reach the Map only while
\* the array is still the one the Map holds
PushTurn(cache, tr, assistantResponse) ==
    IF tr.attached
    THEN [cache EXCEPT ![tr.userId] =
            @ \o <<Entry("user", tr.userMessage), Entry("assistant", assistantResponse)>>]
    ELSE cache

\* saveToHistory up to its first await
BeginSave(tr, assistantResponse) ==
    [tr EXCEPT !.pc = "save1", !.cleaned = assistantResponse,
               !.pushed = @ \o <<Entry("user", tr.userMessage),
                                 Entry("assistant", assistantResponse)>>]

RECURSIVE TrimCacheEntries(_)
\* while (cached.length > maxHistoryLength) cached.shift()
TrimCacheEntries(cached) ==
    IF Len(cached) > maxHistoryLength THEN TrimCacheEntries(Tail(cached)) ELSE cached

\* history.slice(-(maxHistoryLength * 2 + 1))
SliceLastAndOne(history) ==
    IF Len(history) <= maxHistoryLength * 2 + 1 THEN history
    ELSE SubSeq(history, Len(history) - maxHistoryLength * 2, Len(history))

RECURSIVE TrimCache(_)
\* while (cached.length > maxHistoryLength * 2) cached.shift()
TrimCache(cached) ==
    IF Len(cached) > maxHistoryLength * 2 THEN TrimCache(Tail(cached)) ELSE cached

\* history.slice(-maxHistoryLength * 2): slice(-0) is slice(0), the whole array
SliceLast(history) ==
    IF maxHistoryLength * 2 = 0 THEN history
    ELSE IF Len(history) <= maxHistoryLength * 2 THEN history
    ELSE SubSeq(history, Len(history) - maxHistoryLength * 2 + 1, Len(history))

\* the arrays chat calls took from the Map for user u stop being the Map's
Detach(u) ==
    [t \in Turns |-> IF turn[t].userId = u THEN [turn[t] EXCEPT !.attached = FALSE]
                     ELSE turn[t]]

\* ------------------------------------------------- what the model may say

\* {"name": name, "arguments": arguments}
CallJson(name, arguments) ==
    <<"{", QName, ":", name, ",", QArguments, ":">> \o arguments \o <<"}">>

ArgsA == <<"{", "\"a\"", ":", "1", "}">>

\* a plain answer
RPlain == <<"o", "k">>

\* prose, then one closed call of a registered tool
RCall == <<"h", "i", " ">> \o OpenTag \o CallJson("\"shell\"", ArgsA) \o CloseTag

\* a call of an unknown tool and a call of a registered one
RTwo ==
    OpenTag \o CallJson("\"nope\"", ArgsA) \o CloseTag \o <<"\n">>
    \o OpenTag \o CallJson("\"shell\"", ArgsA) \o CloseTag

\* a call of a registered tool and then a call of an unknown one
RShellNope ==
    OpenTag \o CallJson("\"shell\"", ArgsA) \o CloseTag \o <<"\n">>
    \o OpenTag \o CallJson("\"nope\"", ArgsA) \o CloseTag

\* an answer that ends with a close tag no open tag precedes
RStray == <<"o", "k">> \o CloseTag

\* prose, then a fenced json block with one call
RBlock ==
    <<"s", "o", " ">> \o JsonFence \o <<"\n", "{", QToolCalls, ":", "[">>
    \o CallJson("\"shell\"", ArgsA) \o <<"]", "}", "\n">> \o Fence

\* ------------------------------------------- texts the parser is run on

\* the deepest nesting of the arguments object in the texts below
MaxDepth == 2

\* the most tag pairs in one text below
MaxPairs == 2

\* {"a": {"a": ... 1 ...}}, nested d deep
RECURSIVE ArgsDepth(_)
ArgsDepth(d) ==
    IF d <= 1 THEN ArgsA ELSE <<"{", "\"a\"", ":">> \o ArgsDepth(d - 1) \o <<"}">>

\* the candidate objects: every shape of name and of arguments, the empty
\* text for a member that is absent
NameShapes == {<<"\"shell\"">>, <<"\"\"">>, <<"1">>, <<"n", "u", "l", "l">>, <<>>}

ArgShapes ==
    {ArgsA, <<"{", "}">>, <<"n", "u", "l", "l">>, <<"[", "]">>, <<"1">>, <<"\"a\"">>, <<>>}

\* the JSON text of a candidate with the given name and arguments members
Candidate(name, arguments) ==
    <<"{">>
    \o (IF name # <<>> THEN <<QName, ":">> \o name ELSE <<>>)
    \o (IF name # <<>> /\ arguments # <<>> THEN <<",">> ELSE <<>>)
    \o (IF arguments # <<>> THEN <<QArguments, ":">> \o arguments ELSE <<>>)
    \o <<"}">>

\* a candidate in each of the three formats
InFormat(f, json) ==
    CASE f = "closed" -> OpenTag \o json \o CloseTag
      [] f = "open" -> OpenTag \o json
      [] OTHER -> JsonFence \o <<"\n", "{", QToolCalls, ":", "[">> \o json
                  \o <<"]", "}", "\n">> \o Fence

Formats == {"closed", "open", "block"}

CandidateTexts ==
    {InFormat(f, Candidate(n, a)) : f \in Formats, n \in NameShapes, a \in ArgShapes}

\* prose after an unclosed call: none, plain, or with braces in it
Proses ==
    {<<>>, <<" ", "o", "k">>, <<" ", "{", "x", "}">>, <<" ", "}">>, <<" ", "{">>}

\* an unclosed tag, a valid call whose arguments nest d deep, and prose
UnclosedText(d, prose) == OpenTag \o CallJson("\"shell\"", ArgsDepth(d)) \o prose

UnclosedTexts == {UnclosedText(d, prose) : d \in 1..MaxDepth, prose \in Proses}

\* what a tag pair may hold: a valid call of shell or of nope, a call that
\* misses its closing brace, a call cut off after its name, or braces around
\* something that is no JSON
PairKinds == {"shell", "nope", "unbraced", "cut", "junk"}

PairContent(kind) ==
    CASE kind = "shell" -> CallJson("\"shell\"", ArgsA)
      [] kind = "nope" -> CallJson("\"nope\"", ArgsA)
      [] kind = "unbraced" -> <<"{", QName, ":", "\"shell\"", ",", QArguments, ":">> \o ArgsA
      [] kind = "cut" -> <<"{", QName, ":", "\"shell\"">>
      [] OTHER -> <<"{", "x", "}">>

\* the sequences of kinds of length 1 to n
RECURSIVE KindSeqs(_)
KindSeqs(n) ==
    IF n = 0 THEN {<<>>}
    ELSE LET shorter == KindSeqs(n - 1)
         IN  shorter \cup {Append(q, k) : q \in {x \in shorter : Len(x) = n - 1},
                                           k \in PairKinds}

\* the closed occurrences of the kinds, one per line
RECURSIVE PairsText(_)
PairsText(kinds) ==
    IF Len(kinds) = 0 THEN <<>>
    ELSE OpenTag \o PairContent(Head(kinds)) \o CloseTag \o <<"\n">>
         \o PairsText(Tail(kinds))

PairTexts == {PairsText(kinds) : kinds \in KindSeqs(MaxPairs + 1) \ {<<>>}}

\* what a single tag may hold that is no JSON
BadContents ==
    {<<"{", "x", "}">>,
     <<"x">>,
     <<"{", QName, ":", "\"shell\"">>,
     CallJson("\"shell\"", ArgsA) \o <<" ", "x", "}">>}

\* one tag, closed or not, around content, and plain prose after it
SingleTagText(content, closed) ==
    OpenTag \o content \o (IF closed THEN CloseTag ELSE <<>>) \o <<" ", "o", "k">>

SingleTagTexts == {SingleTagText(c, b) : c \in BadContents, b \in BOOLEAN}

\* the arguments by which a request tells the format it was written in
ArgsOfFormat(f) ==
    CASE f = "closed" -> ArgsA
      [] f = "open" -> <<"{", "}">>
      [] OTHER -> ArgsDepth(2)

\* a request in format f: a valid one for shell, or one that has no name
FormatPiece(f, valid) ==
    InFormat(f, Candidate(IF valid THEN <<"\"shell\"">> ELSE <<>>, ArgsOfFormat(f)))

\* the orders in which one, two or all three formats may follow each other
FormatOrders ==
    {q \in UNION {[1..n -> Formats] : n \in 1..3} :
        \A i \in DOMAIN q, j \in DOMAIN q : i # j => q[i] # q[j]}

RECURSIVE MixedText(_, _)
\* the pieces of the formats in order, one per line, piece i valid or not as
\* valid[i] says
MixedText(order, valid) ==
    IF Len(order) = 0 THEN <<>>
    ELSE FormatPiece(Head(order), Head(valid)) \o <<"\n">>
         \o MixedText(Tail(order), Tail(valid))

MixedTexts ==
    UNION {{MixedText(order, valid) : valid \in [1..Len(order) -> BOOLEAN]} :
              order \in FormatOrders}

\* the most entries of a tool_calls array in the texts below
MaxEntries == 3

\* what an entry of a tool_calls array may be: a valid request for shell or
\* for nope, null, a number, a string, an array, or an object with no name
EntryKinds == {"shell", "nope", "null", "number", "string", "array", "noname"}

EntryText(kind) ==
    CASE kind = "shell" -> CallJson("\"shell\"", ArgsA)
      [] kind = "nope" -> CallJson("\"nope\"", ArgsA)
      [] kind = "null" -> <<"n", "u", "l", "l">>
      [] kind = "number" -> <<"1">>
      [] kind = "string" -> <<"\"a\"">>
      [] kind = "array" -> <<"[", "]">>
      [] OTHER -> Candidate(<<>>, ArgsA)

\* the sequences of one to n kinds of entry
EntrySeqs(n) == UNION {[1..k -> EntryKinds] : k \in 1..n}

\* a fenced json block whose tool_calls array holds the entries
BlockArrayText(kinds) ==
    JsonFence \o <<"\n", "{", QToolCalls, ":", "[">>
    \o Join([i \in 1..Len(kinds) |-> EntryText(kinds[i])], ",")
    \o <<"]", "}", "\n">> \o Fence

BlockArrayTexts == {BlockArrayText(kinds) : kinds \in EntrySeqs(MaxEntries)}

ParserTexts ==
    CandidateTexts \cup UnclosedTexts \cup PairTexts \cup SingleTagTexts \cup MixedTexts
    \cup BlockArrayTexts

\* ------------------------------------------ texts the cleaner is run on

\* the most pieces in one text below
MaxPieces == 3

\* a fenced json block with a tool_calls array
ToolCallsBlock == JsonFence \o <<"{", QToolCalls, ":", "[", "]", "}">> \o Fence

\* a fenced json block that holds something else
OtherBlock == JsonFence \o <<"{", "\"a\"", ":", "1", "}">> \o Fence

\* what a text is put together from: prose, white space, whole and partial
\* tags, fenced blocks, and a mention of tool_calls that ends with a brace
\* and a fence
Pieces ==
    {<<"o", "k">>, <<" ">>, OpenTag, CloseTag,
     <<"<", "t", "o", "o", "l", "_">>, <<"c", "a", "l", "l", ">">>,
     ToolCallsBlock, OtherBlock, <<QToolCalls, "}">> \o Fence}

\* the texts of one to n pieces
RECURSIVE PieceTexts(_)
PieceTexts(n) ==
    IF n = 0 THEN {}
    ELSE Pieces \cup {q \o p : q \in PieceTexts(n - 1), p \in Pieces}

CleanerTexts == PieceTexts(MaxPieces)

\* what the model answers in the runs of Spec, and in the runs of SpecLoop
HistResponses == {RPlain, RCall}

LoopResponses == {RPlain, RCall, RTwo, RStray}

StreamResponses == {RPlain, RCall, RStray, RBlock}

\* what the model answers in the runs of SpecTools
ToolResponses == {RPlain, RTwo, RShellNope}

\* the tools addTool registers while a turn runs
LateTools == {"extra"}

\* the most tools in the list createAgent is given in the runs of
\* SpecRegistry
MaxInitialTools == 2

\* a request for shell whose arguments its parameters accept
ArgsCommand == <<"{", "\"command\"", ":", "\"ls\"", "}">>

RShellLs == OpenTag \o CallJson("\"shell\"", ArgsCommand) \o CloseTag

\* a request for shell with a timeout of its own
ArgsTimeout == <<"{", "\"command\"", ":", "\"ls\"", ",", "\"timeout\"", ":", "1", "}">>

RShellTimeout == OpenTag \o CallJson("\"shell\"", ArgsTimeout) \o CloseTag

\* two requests for shell
RShellShell ==
    OpenTag \o CallJson("\"shell\"", ArgsCommand) \o CloseTag \o <<"\n">>
    \o OpenTag \o CallJson("\"shell\"", ArgsTimeout) \o CloseTag

\* what the model answers in the runs of SpecOutcomes
OutcomeResponses == {RPlain, RShellLs, RShellTimeout, RShellShell, RTwo}

\* the tools of the runs of SpecRegistry: shellTool, a plain object of the
\* same name and parameters, and a plain object of another name
RegistryTools == {DefinedTool("shell"), PlainTool("shell"), PlainTool("extra")}

RECURSIVE ToolLists(_)
\* the lists of at most n tools
ToolLists(n) ==
    IF n = 0 THEN {<<>>}
    ELSE LET shorter == ToolLists(n - 1)
         IN  shorter \cup {Append(l, tool) : l \in {x \in shorter : Len(x) = n - 1},
                                              tool \in RegistryTools}

\* what the model answers in the runs of SpecRegistry: a request whose
\* arguments the parameters of shell reject, and one they accept
RegistryResponses == {RPlain, RCall, RShellLs}

\* the values of config.maxToolCalls in the runs of SpecTools and SpecStream
ToolCeilings == {1, 2}

\* the user message of the t-th call of chat
Msg(t) == <<"q", ToString(t)>>

\* ------------------------------------------------------- the durable store

\* memory.addToConversationHistory(userId, role, content): the entry joins
\* the end of the user's stored history
addToConversationHistory(store, userId, role, content) ==
    [store EXCEPT ![userId] = Append(@, Entry(role, content))]

\* memory.getConversationHistory(userId): the user's stored history, oldest
\* entry first
getConversationHistory(store, userId) == store[userId]

\* memory.clearConversationHistory(userId): the user's stored history is
\* emptied
clearConversationHistory(store, userId) == [store EXCEPT ![userId] = <<>>]

\* memory.getAllUserIds(): the users the store holds history of
getAllUserIds(store) ==
    (IF store["u1"] # <<>> THEN <<"u1">> ELSE <<>>)
    \o (IF store["u2"] # <<>> THEN <<"u2">> ELSE <<>>)

\* ------------------------------------------------------------------ chat

\* chat(userMessage, userId, options) up to its first await
Start(t, u, oc, otc) ==
    /\ turn[t].pc = "idle"
    /\ \A s \in 1..(t - 1) : turn[s].pc # "idle"
    /\ turn' = [turn EXCEPT ![t] = [@ EXCEPT !.pc = "prefs", !.userId = u,
                                              !.userMessage = Msg(t),
                                              !.onChunk = oc, !.onToolCall = otc]]
    /\ UNCHANGED <<maxToolCalls, maxHistoryLength, toolRegistry, historyCache,
                   durable, load, clear, admin>>

\* memory.getUserPreferences settles: the message list is built from the
\* cache, the cache array is taken, and the loop starts
PrefsDone(t, ok) ==
    /\ turn[t].pc = "prefs"
    /\ LET tr == turn[t]
           history == HistoryOf(historyCache, tr.userId)
           messages == <<Entry("system", buildSystemPrompt(MapKeys(toolRegistry)))>>
                       \o [i \in 1..Len(history) |->
                              Entry(history[i].role, history[i].content)]
                       \o <<Entry("user", tr.userMessage)>>
       IN  /\ turn' = [turn EXCEPT ![t] =
                    IF ok THEN LoopHead([tr EXCEPT !.history = history,
                                                   !.messages = messages,
                                                   !.attached = TRUE])
                    ELSE [tr EXCEPT !.pc = "rejected", !.err = "preferences"]]
           /\ historyCache' = IF ok THEN CacheAtStart(historyCache, tr) ELSE historyCache
    /\ UNCHANGED <<maxToolCalls, maxHistoryLength, toolRegistry, durable, load,
                   clear, admin>>

\* llm.chat or llm.chatStream of the loop resolves with a response of R,
\* delivered to the streaming callback in chunks cut in at most k places
LlmDone(t, R, k) ==
    /\ turn[t].pc = "llm"
    /\ \E r \in R :
        LET tr == turn[t]
            toolCalls == parseToolCalls(r)
            cleaned == cleanResponse(r)
        IN  \E cuts \in (IF tr.onChunk THEN CutSets(Len(r), k) ELSE {{}}) :
            LET fresh == [call |-> Len(tr.llmCalls), buffer |-> <<>>,
                          toolCallDetected |-> FALSE, sent |-> tr.sent]
                st == IF tr.onChunk
                      THEN Stream(r, cuts, 1, fresh, tr.isFirstResponse)
                      ELSE fresh
                tr1 == [tr EXCEPT !.response = r, !.responses = Append(@, r),
                                  !.sent = st.sent, !.toolCalls = toolCalls]
            IN  IF Len(toolCalls) = 0
                THEN /\ turn' = [turn EXCEPT ![t] = BeginSave(tr1, cleaned)]
                     /\ historyCache' = PushTurn(historyCache, tr1, cleaned)
                ELSE /\ turn' = [turn EXCEPT ![t] =
                            RunCalls([tr1 EXCEPT !.isFirstResponse = FALSE,
                                                 !.results = <<>>, !.outcomes = <<>>,
                                                 !.availableToolNames = MapKeys(toolRegistry)], 1)]
                     /\ UNCHANGED historyCache
    /\ UNCHANGED <<maxToolCalls, maxHistoryLength, toolRegistry, durable, load,
                   clear, admin>>

\* a model call rejects: chat rejects
LlmFail(t) ==
    /\ turn[t].pc \in {"llm", "final"}
    /\ turn' = [turn EXCEPT ![t] = [@ EXCEPT !.pc = "rejected", !.err = "llm"]]
    /\ UNCHANGED <<maxToolCalls, maxHistoryLength, toolRegistry, historyCache,
                   durable, load, clear, admin>>

\* a for loop that a failed execute ends: the requests after it are dropped
ToolDoneStopOnFailure(t, o) ==
    /\ turn[t].pc = "tool"
    /\ LET tr == turn[t]
           name == NameText(tr.toolCalls[tr.idx].name)
       IN  turn' = [turn EXCEPT ![t] =
                RunCalls([tr EXCEPT !.results = Append(@, ResultOf(o, name)),
                                    !.outcomes = Append(@, o),
                                    !.toolLog = Append(@, ToolEvent("result", tr, tr.idx))],
                         IF o = "success" THEN tr.idx + 1 ELSE Len(tr.toolCalls) + 1)]
    /\ UNCHANGED <<maxToolCalls, maxHistoryLength, toolRegistry, historyCache,
                   durable, load, clear, admin>>

\* tool.execute of call idx settles with outcome o; the for loop goes on
ToolDone(t, o) ==
    /\ turn[t].pc = "tool"
    /\ LET tr == turn[t]
           name == NameText(tr.toolCalls[tr.idx].name)
       IN  turn' = [turn EXCEPT ![t] =
                RunCalls([tr EXCEPT !.results = Append(@, ResultOf(o, name)),
                                    !.outcomes = Append(@, o),
                                    !.toolLog = Append(@, ToolEvent("result", tr, tr.idx))],
                         tr.idx + 1)]
    /\ UNCHANGED <<maxToolCalls, maxHistoryLength, toolRegistry, historyCache,
                   durable, load, clear, admin>>

\* the forced final llm.chat resolves with a response of R
FinalDone(t, R) ==
    /\ turn[t].pc = "final"
    /\ \E r \in R :
        LET tr1 == [turn[t] EXCEPT !.responses = Append(@, r)]
            cleaned == cleanResponse(r)
        IN  /\ turn' = [turn EXCEPT ![t] = BeginSave(tr1, cleaned)]
            /\ historyCache' = PushTurn(historyCache, tr1, cleaned)
    /\ UNCHANGED <<maxToolCalls, maxHistoryLength, toolRegistry, durable, load,
                   clear, admin>>

\* memory.addToConversationHistory(userId, "user", userMessage) settles
Save1Done(t, ok) ==
    /\ turn[t].pc = "save1"
    /\ LET tr == turn[t]
           e == Entry("user", tr.userMessage)
       IN  IF ok
           THEN /\ durable' = addToConversationHistory(durable, tr.userId, "user",
                                                        tr.userMessage)
                /\ turn' = [turn EXCEPT ![t] = [@ EXCEPT !.pc = "save2",
                                                         !.saved = Append(@, e)]]
           ELSE /\ durable' = durable
                /\ turn' = [turn EXCEPT ![t] = [@ EXCEPT !.pc = "rejected", !.err = "store"]]
    /\ UNCHANGED <<maxToolCalls, maxHistoryLength, toolRegistry, historyCache,
                   load, clear, admin>>

\* memory.addToConversationHistory(userId, "assistant", ...) settles; the
\* cache is trimmed and chat returns
Save2Done(t, ok) ==
    /\ turn[t].pc = "save2"
    /\ LET tr == turn[t]
           e == Entry("assistant", tr.cleaned)
       IN  IF ok
           THEN /\ durable' = addToConversationHistory(durable, tr.userId, "assistant",
                                                        tr.cleaned)
                /\ historyCache' = IF tr.attached
                                   THEN [historyCache EXCEPT ![tr.userId] = TrimCache(@)]
                                   ELSE historyCache
                /\ turn' = [turn EXCEPT ![t] = [@ EXCEPT !.pc = "returned",
                                                         !.saved = Append(@, e)]]
           ELSE /\ durable' = durable
                /\ historyCache' = historyCache
                /\ turn' = [turn EXCEPT ![t] = [@ EXCEPT !.pc = "rejected", !.err = "store"]]
    /\ UNCHANGED <<maxToolCalls, maxHistoryLength, toolRegistry, load, clear, admin>>

\* ------------------------------------- loadHistory, clearHistory, addTool

\* no call in flight
NoLoad == [pc |-> "idle", userIds |-> <<>>]

\* before holds the calls of chat made before clearHistory was called
NoClear == [pc |-> "idle", userId |-> "", before |-> {}]

\* loadHistory() up to its first await
LoadStart ==
    /\ admin > 0
    /\ load.pc = "idle"
    /\ load' = [pc |-> "ids", userIds |-> <<>>]
    /\ admin' = admin - 1
    /\ UNCHANGED <<maxToolCalls, maxHistoryLength, toolRegistry, historyCache,
                   durable, turn, clear>>

\* memory.getAllUserIds settles
LoadIds(ok) ==
    /\ load.pc = "ids"
    /\ load' = IF ok /\ Len(getAllUserIds(durable)) > 0
               THEN [pc |-> "get", userIds |-> getAllUserIds(durable)]
               ELSE NoLoad
    /\ UNCHANGED <<maxToolCalls, maxHistoryLength, toolRegistry, historyCache,
                   durable, turn, clear, admin>>

\* memory.getConversationHistory(userId) settles: the trimmed history
\* replaces the array the Map held for that user
LoadGet(ok) ==
    /\ load.pc = "get"
    /\ LET userId == Head(load.userIds)
           rest == Tail(load.userIds)
       IN  IF ok
           THEN /\ historyCache' = [historyCache EXCEPT ![userId] = SliceLast(getConversationHistory(durable, userId))]
                /\ turn' = Detach(userId)
                /\ load' = IF Len(rest) > 0 THEN [pc |-> "get", userIds |-> rest] ELSE NoLoad
           ELSE /\ historyCache' = historyCache
                /\ turn' = turn
                /\ load' = NoLoad
    /\ UNCHANGED <<maxToolCalls, maxHistoryLength, toolRegistry, durable, clear, admin>>

\* a clearHistory that clears the store and leaves the Map as it is
ClearStartKeepCache(u) ==
    /\ admin > 0
    /\ clear.pc # "await"
    /\ clear' = [pc |-> "await", userId |-> u,
                 before |-> {t \in Turns : turn[t].pc # "idle"}]
    /\ admin' = admin - 1
    /\ UNCHANGED <<maxToolCalls, maxHistoryLength, toolRegistry, historyCache,
                   durable, turn, load>>

\* clearHistory(userId) up to its await: the Map entry is deleted
ClearStart(u) ==
    /\ admin > 0
    /\ clear.pc # "await"
    /\ historyCache' = [historyCache EXCEPT ![u] = <<>>]
    /\ turn' = Detach(u)
    /\ clear' = [pc |-> "await", userId |-> u,
                 before |-> {t \in Turns : turn[t].pc # "idle"}]
    /\ admin' = admin - 1
    /\ UNCHANGED <<maxToolCalls, maxHistoryLength, toolRegistry, durable, load>>

\* memory.clearConversationHistory(userId) settles, and clearHistory
\* resolves or rejects with it
ClearDone(ok) ==
    /\ clear.pc = "await"
    /\ durable' = IF ok THEN clearConversationHistory(durable, clear.userId) ELSE durable
    /\ clear' = [clear EXCEPT !.pc = IF ok THEN "resolved" ELSE "rejected"]
    /\ UNCHANGED <<maxToolCalls, maxHistoryLength, toolRegistry, historyCache,
                   turn, load, admin>>

\* addTool(tool): toolRegistry.set(tool.name, tool)
AddTool(tool) ==
    /\ admin > 0
    /\ toolRegistry' = MapSet(toolRegistry, tool.name, tool)
    /\ admin' = admin - 1
    /\ UNCHANGED <<maxToolCalls, maxHistoryLength, historyCache, durable, turn,
                   load, clear>>

\* ------------------------------------------------------- specifications

\* one earlier turn of u1, as the store holds it when the process starts
OldTurn == <<Entry("user", <<"q", "0">>), Entry("assistant", <<"a", "0">>)>>

\* the agent after createAgent, with several users and operations in flight
Init ==
    /\ maxToolCalls = 1
    /\ maxHistoryLength \in 0..MaxHistoryBound
    /\ toolRegistry = <<>>
    /\ historyCache = [u \in Users |-> <<>>]
    /\ durable \in {[u \in Users |-> IF u = "u1" THEN h ELSE <<>>] : h \in {<<>>, OldTurn}}
    /\ turn = [t \in Turns |-> IdleTurn]
    /\ load = NoLoad
    /\ clear = NoClear
    /\ admin = MaxAdmin

Next ==
    \/ \E u \in Users : Start(1, u, FALSE, FALSE)
    \/ \E t \in Turns \ {1}, u \in Users : Start(t, u, FALSE, FALSE)
    \/ \E t \in Turns, ok \in BOOLEAN : PrefsDone(t, ok)
    \/ \E t \in Turns : LlmDone(t, HistResponses, 0)
    \/ \E t \in Turns : LlmFail(t)
    \/ \E t \in Turns : ToolDone(t, "success")
    \/ \E t \in Turns : FinalDone(t, HistResponses)
    \/ \E t \in Turns, ok \in BOOLEAN : Save1Done(t, ok)
    \/ \E t \in Turns, ok \in BOOLEAN : Save2Done(t, ok)
    \/ LoadStart
    \/ \E ok \in BOOLEAN : LoadIds(ok)
    \/ \E ok \in BOOLEAN : LoadGet(ok)
    \/ \E u \in Users : ClearStart(u)
    \/ \E ok \in BOOLEAN : ClearDone(ok)
    \/ \E n \in ToolNames : AddTool(DefinedTool(n))

Spec == Init /\ [][Next]_vars

\* one call of chat on its own, with every response, tool outcome and
\* chunking the bounds allow
InitLoop ==
    /\ maxToolCalls \in 0..MaxToolCallsBound
    /\ maxHistoryLength = 1
    /\ toolRegistry = MapOf(<<DefinedTool("shell")>>, <<>>)
    /\ historyCache = [u \in Users |-> <<>>]
    /\ durable = [u \in Users |-> <<>>]
    /\ turn = [t \in Turns |-> IdleTurn]
    /\ load = NoLoad
    /\ clear = NoClear
    /\ admin = 0

NextLoop ==
    \/ \E oc \in BOOLEAN, otc \in BOOLEAN : Start(1, "u1", oc, otc)
    \/ \E ok \in BOOLEAN : PrefsDone(1, ok)
    \/ LlmDone(1, LoopResponses, 0)
    \/ LlmFail(1)
    \/ \E o \in ToolOutcomes : ToolDone(1, o)
    \/ FinalDone(1, LoopResponses)
    \/ \E ok \in BOOLEAN : Save1Done(1, ok)
    \/ \E ok \in BOOLEAN : Save2Done(1, ok)

SpecLoop == InitLoop /\ [][NextLoop]_vars

\* the awaited calls of the turn: the store, the model, the tools
Settle ==
    \/ \E ok \in BOOLEAN : PrefsDone(1, ok)
    \/ LlmDone(1, LoopResponses, 0)
    \/ LlmFail(1)
    \/ \E o \in ToolOutcomes : ToolDone(1, o)
    \/ FinalDone(1, LoopResponses)
    \/ \E ok \in BOOLEAN : Save1Done(1, ok)
    \/ \E ok \in BOOLEAN : Save2Done(1, ok)

\* every awaited call of the turn settles in the end
FairSpecLoop == SpecLoop /\ WF_vars(Settle)

\* one call of chat with an onChunk observer, the responses cut into chunks
InitStream ==
    /\ maxToolCalls \in ToolCeilings
    /\ maxHistoryLength = 1
    /\ toolRegistry = MapOf(<<DefinedTool("shell")>>, <<>>)
    /\ historyCache = [u \in Users |-> <<>>]
    /\ durable = [u \in Users |-> <<>>]
    /\ turn = [t \in Turns |-> IdleTurn]
    /\ load = NoLoad
    /\ clear = NoClear
    /\ admin = 0

NextStream ==
    \/ Start(1, "u1", TRUE, FALSE)
    \/ PrefsDone(1, TRUE)
    \/ LlmDone(1, StreamResponses, MaxCuts)
    \/ LlmFail(1)
    \/ ToolDone(1, "success")
    \/ FinalDone(1, StreamResponses)
    \/ \E ok \in BOOLEAN : Save1Done(1, ok)
    \/ \E ok \in BOOLEAN : Save2Done(1, ok)

SpecStream == InitStream /\ [][NextStream]_vars

\* one call of chat whose rounds ask for registered and unknown tools, while
\* addTool registers further tools
InitTools ==
    /\ maxToolCalls \in ToolCeilings
    /\ maxHistoryLength = 1
    /\ toolRegistry = MapOf(<<DefinedTool("shell")>>, <<>>)
    /\ historyCache = [u \in Users |-> <<>>]
    /\ durable = [u \in Users |-> <<>>]
    /\ turn = [t \in Turns |-> IdleTurn]
    /\ load = NoLoad
    /\ clear = NoClear
    /\ admin = MaxAdmin

NextTools ==
    \/ \E otc \in BOOLEAN : Start(1, "u1", FALSE, otc)
    \/ PrefsDone(1, TRUE)
    \/ LlmDone(1, ToolResponses, 0)
    \/ LlmFail(1)
    \/ \E o \in ToolOutcomes : ToolDone(1, o)
    \/ FinalDone(1, {RPlain})
    \/ Save1Done(1, TRUE)
    \/ Save2Done(1, TRUE)
    \/ \E n \in LateTools : AddTool(DefinedTool(n))

SpecTools == InitTools /\ [][NextTools]_vars

\* one call of chat whose first response is one of the parser's texts
InitParse ==
    /\ maxToolCalls = 1
    /\ maxHistoryLength = 1
    /\ toolRegistry = MapOf(<<DefinedTool("shell")>>, <<>>)
    /\ historyCache = [u \in Users |-> <<>>]
    /\ durable = [u \in Users |-> <<>>]
    /\ turn = [t \in Turns |-> IdleTurn]
    /\ load = NoLoad
    /\ clear = NoClear
    /\ admin = 0

NextParse ==
    \/ Start(1, "u1", FALSE, FALSE)
    \/ PrefsDone(1, TRUE)
    \/ LlmDone(1, ParserTexts, 0)
    \/ LlmFail(1)
    \/ ToolDone(1, "success")
    \/ FinalDone(1, {RPlain})
    \/ Save1Done(1, TRUE)
    \/ Save2Done(1, TRUE)

SpecParse == InitParse /\ [][NextParse]_vars

\* one call of chat that goes straight to the final call, whose response is
\* one of the cleaner's texts
InitClean ==
    /\ maxToolCalls = 0
    /\ maxHistoryLength = 1
    /\ toolRegistry = MapOf(<<DefinedTool("shell")>>, <<>>)
    /\ historyCache = [u \in Users |-> <<>>]
    /\ durable = [u \in Users |-> <<>>]
    /\ turn = [t \in Turns |-> IdleTurn]
    /\ load = NoLoad
    /\ clear = NoClear
    /\ admin = 0

NextClean ==
    \/ Start(1, "u1", FALSE, FALSE)
    \/ PrefsDone(1, TRUE)
    \/ LlmFail(1)
    \/ FinalDone(1, CleanerTexts)
    \/ Save1Done(1, TRUE)
    \/ Save2Done(1, TRUE)

SpecClean == InitClean /\ [][NextClean]_vars

\* a call of chat of user u1 among calls of chat of user u2, each user with
\* or without an earlier turn in the store and, after loadHistory, in the cache
InitUsers ==
    /\ maxToolCalls = 1
    /\ maxHistoryLength = 1
    /\ toolRegistry = MapOf(<<DefinedTool("shell")>>, <<>>)
    /\ durable \in [Users -> {<<>>, OldTurn}]
    /\ historyCache = durable
    /\ turn = [t \in Turns |-> IdleTurn]
    /\ load = NoLoad
    /\ clear = NoClear
    /\ admin = 0

NextUsers ==
    \/ Start(1, "u1", FALSE, FALSE)
    \/ \E t \in Turns \ {1} : Start(t, "u2", FALSE, FALSE)
    \/ \E t \in Turns : PrefsDone(t, TRUE)
    \/ \E t \in Turns : LlmDone(t, HistResponses, 0)
    \/ \E t \in Turns : LlmFail(t)
    \/ \E t \in Turns : ToolDone(t, "success")
    \/ \E t \in Turns : FinalDone(t, HistResponses)
    \/ \E t \in Turns, ok \in BOOLEAN : Save1Done(t, ok)
    \/ \E t \in Turns, ok \in BOOLEAN : Save2Done(t, ok)

SpecUsers == InitUsers /\ [][NextUsers]_vars

\* one call of chat on an agent created with any list of tools, while
\* addTool registers tools, some under names the registry holds
InitRegistry ==
    /\ maxToolCalls = 1
    /\ maxHistoryLength = 1
    /\ toolRegistry \in {MapOf(tools, <<>>) : tools \in ToolLists(MaxInitialTools)}
    /\ historyCache = [u \in Users |-> <<>>]
    /\ durable = [u \in Users |-> <<>>]
    /\ turn = [t \in Turns |-> IdleTurn]
    /\ load = NoLoad
    /\ clear = NoClear
    /\ admin = MaxAdmin

NextRegistry ==
    \/ Start(1, "u1", FALSE, FALSE)
    \/ PrefsDone(1, TRUE)
    \/ LlmDone(1, RegistryResponses, 0)
    \/ LlmFail(1)
    \/ /\ turn[1].pc = "tool"
       /\ \E body \in ToolOutcomes :
             ToolDone(1, execute(turn[1].tool, turn[1].toolCalls[turn[1].idx].arguments,
                                 body))
    \/ FinalDone(1, {RPlain})
    \/ Save1Done(1, TRUE)
    \/ Save2Done(1, TRUE)
    \/ \E tool \in RegistryTools : AddTool(tool)

SpecRegistry == InitRegistry /\ [][NextRegistry]_vars

\* one call of chat whose rounds request shell, with every outcome an
\* execution may have
InitOutcomes ==
    /\ maxToolCalls = 1
    /\ maxHistoryLength = 1
    /\ toolRegistry = MapOf(<<DefinedTool("shell")>>, <<>>)
    /\ historyCache = [u \in Users |-> <<>>]
    /\ durable = [u \in Users |-> <<>>]
    /\ turn = [t \in Turns |-> IdleTurn]
    /\ load = NoLoad
    /\ clear = NoClear
    /\ admin = 0

NextOutcomes ==
    \/ Start(1, "u1", FALSE, FALSE)
    \/ PrefsDone(1, TRUE)
    \/ LlmDone(1, OutcomeResponses, 0)
    \/ LlmFail(1)
    \/ \E o \in ToolOutcomes \cup FurtherOutcomes : ToolDone(1, o)
    \/ FinalDone(1, {RPlain})
    \/ Save1Done(1, TRUE)
    \/ Save2Done(1, TRUE)

SpecOutcomes == InitOutcomes /\ [][NextOutcomes]_vars

\* the call of chat is between its first await and its return
InFlight(t) == turn[t].pc \notin {"idle", "returned", "rejected"}

\* the most earlier turns of a user the store holds when the process starts
MaxStored == 2

RECURSIVE StoredTurns(_)
\* k earlier turns of a user, as the store holds them
StoredTurns(k) ==
    IF k = 0 THEN <<>>
    ELSE StoredTurns(k - 1) \o <<Entry("user", <<"p", ToString(k)>>),
                                  Entry("assistant", <<"r", ToString(k)>>)>>

\* a process from its start: loadHistory is awaited before the first call of
\* chat, if it is called at all, and the calls of chat, all of one user, are
\* made one after another
InitSeq ==
    /\ maxToolCalls = 1
    /\ maxHistoryLength \in 0..MaxHistoryBound
    /\ toolRegistry = MapOf(<<DefinedTool("shell")>>, <<>>)
    /\ historyCache = [u \in Users |-> <<>>]
    /\ durable \in [Users -> {StoredTurns(k) : k \in 0..MaxStored}]
    /\ turn = [t \in Turns |-> IdleTurn]
    /\ load = NoLoad
    /\ clear = NoClear
    /\ admin = MaxAdmin

NextSeq ==
    \/ (\A t \in Turns : turn[t].pc = "idle") /\ LoadStart
    \/ LoadIds(TRUE)
    \/ LoadGet(TRUE)
    \/ \E t \in Turns :
          /\ load.pc = "idle"
          /\ \A s \in Turns : ~InFlight(s)
          /\ Start(t, "u1", FALSE, FALSE)
    \/ \E t \in Turns : PrefsDone(t, TRUE)
    \/ \E t \in Turns : LlmDone(t, HistResponses, 0)
    \/ \E t \in Turns : LlmFail(t)
    \/ \E t \in Turns : ToolDone(t, "success")
    \/ \E t \in Turns : FinalDone(t, {RPlain})
    \/ \E t \in Turns, ok \in BOOLEAN : Save1Done(t, ok)
    \/ \E t \in Turns, ok \in BOOLEAN : Save2Done(t, ok)

SpecSeq == InitSeq /\ [][NextSeq]_vars

\* calls of chat of both users, each of one model call, and a call of
\* clearHistory, where the caller awaits each call for a user before making
\* the next call for that user:
\* clearHistory(u) is called while no chat of u is in flight, and chat for u
\* is called while no clearHistory(u) and no other chat of u is
InitClear ==
    /\ maxToolCalls = 0
    /\ maxHistoryLength = 1
    /\ toolRegistry = MapOf(<<DefinedTool("shell")>>, <<>>)
    /\ durable \in [Users -> {<<>>, OldTurn}]
    /\ historyCache = durable
    /\ turn = [t \in Turns |-> IdleTurn]
    /\ load = NoLoad
    /\ clear = NoClear
    /\ admin = MaxAdmin

NextClear ==
    \/ \E t \in Turns, u \in Users :
          /\ ~(clear.pc = "await" /\ clear.userId = u)
          /\ \A s \in Turns : turn[s].userId = u => ~InFlight(s)
          /\ Start(t, u, FALSE, FALSE)
    \/ \E t \in Turns : PrefsDone(t, TRUE)
    \/ \E t \in Turns : LlmFail(t)
    \/ \E t \in Turns : FinalDone(t, {RPlain})
    \/ \E t \in Turns, ok \in BOOLEAN : Save1Done(t, ok)
    \/ \E t \in Turns, ok \in BOOLEAN : Save2Done(t, ok)
    \/ \E u \in Users :
          /\ \A t \in Turns : turn[t].userId = u => ~InFlight(t)
          /\ ClearStart(u)
    \/ \E ok \in BOOLEAN : ClearDone(ok)

SpecClear == InitClear /\ [][NextClear]_vars

\* --------------------------------------------------------------- claims

Last(q) == q[Len(q)]

\* every response the turn has received carries at least one valid tool call
AllToolCalls(tr) ==
    \A i \in 1..Len(tr.responses) : Len(parseToolCalls(tr.responses[i])) > 0

\* the last model call of the turn has resolved
PastLastCall(tr) ==
    tr.pc \in {"save1", "save2", "returned"} \/ (tr.pc = "rejected" /\ tr.err = "store")

\* chat has returned or rejected
Done(tr) == tr.pc \in {"returned", "rejected"}

RECURSIVE ParsedIn(_, _)
\* the number of tool calls parsed from the first n responses of the turn
ParsedIn(tr, n) ==
    IF n = 0 THEN 0
    ELSE ParsedIn(tr, n - 1) + Len(parseToolCalls(tr.responses[n]))

\* C1: with maxToolCalls = N, a turn in which every model response carries
\* a valid tool call runs exactly N tool-executing rounds and then makes
\* exactly one more model call, by llm.chat even when an onChunk observer is
\* supplied, whose tool calls are neither announced nor executed; the turn
\* makes N + 1 model calls, and the text it saves and returns is the cleaned
\* text of the last response.
C1_ForcedFinalCall ==
    \A t \in Turns :
        LET tr == turn[t]
        IN  (PastLastCall(tr) /\ AllToolCalls(tr)) =>
                /\ tr.rounds = maxToolCalls
                /\ Len(tr.llmCalls) = maxToolCalls + 1
                /\ Len(tr.responses) = maxToolCalls + 1
                /\ Last(tr.llmCalls) = "chat"
                /\ \A i \in 1..Len(tr.toolLog) : tr.toolLog[i].round <= maxToolCalls
                /\ Cardinality({i \in 1..Len(tr.toolLog) : tr.toolLog[i].ev = "result"})
                       = ParsedIn(tr, maxToolCalls)
                /\ tr.cleaned = cleanResponse(Last(tr.responses))

\* a turn with an onChunk observer that returned after two or more rounds in
\* which every response, the last one too, asked for a tool
C1_Witness ==
    \E t \in Turns :
        /\ turn[t].pc = "returned"
        /\ turn[t].onChunk
        /\ maxToolCalls >= 2
        /\ AllToolCalls(turn[t])
        /\ turn[t].rounds = maxToolCalls

\* C2: whatever the model answers and the tools do, a turn makes at most
\* maxToolCalls + 1 model calls and runs at most maxToolCalls rounds, and,
\* every awaited call settling, a turn that was started returns or rejects.
C2_BoundedAndTerminates ==
    /\ [](\A t \in Turns : /\ Len(turn[t].llmCalls) <= maxToolCalls + 1
                            /\ turn[t].rounds <= maxToolCalls)
    /\ \A t \in Turns : (turn[t].pc # "idle") ~> Done(turn[t])

\* a turn that returned on a plain answer after a tool round, below the
\* ceiling
C2_Witness ==
    \E t \in Turns :
        /\ turn[t].pc = "returned"
        /\ turn[t].rounds >= 1
        /\ turn[t].rounds < maxToolCalls
        /\ Len(turn[t].llmCalls) = turn[t].rounds + 1

\* c is a suffix of d
IsSuffix(c, d) ==
    /\ Len(c) <= Len(d)
    /\ \A i \in 1..Len(c) : c[i] = d[Len(d) - Len(c) + i]

\* C3: in every reachable state each user's history cache is a suffix of
\* that user's durable history, by role and content.
C3_CacheSuffixOfDurable ==
    \A u \in Users : IsSuffix(historyCache[u], durable[u])

\* no call of chat, loadHistory or clearHistory is in flight
Quiescent ==
    /\ \A t \in Turns : turn[t].pc \in {"idle", "returned", "rejected"}
    /\ load.pc = "idle"
    /\ clear.pc # "await"

\* C4: once the turns, hydrations and clears that were started have
\* completed, no user's cache holds more than 2 x maxHistoryLength entries.
C4_CacheWithinCapacity ==
    Quiescent => \A u \in Users : Len(historyCache[u]) <= 2 * maxHistoryLength

\* the two entries a turn is to persist
TurnPair(tr) == <<Entry("user", tr.userMessage), Entry("assistant", tr.cleaned)>>

\* C5: a turn that returned, after any number of tool rounds, wrote to the
\* durable history exactly the user entry with the user message and then
\* the assistant entry with the text it returned, pushed the same two
\* entries to the cache, and neither holds a raw response or a feedback
\* message: the history that was empty before the turn is these two entries
\* in the store and in the cache.
C5_TurnPersistsItsPair ==
    \A t \in Turns :
        LET tr == turn[t]
        IN  tr.pc = "returned" =>
                /\ tr.cleaned = cleanResponse(Last(tr.responses))
                /\ tr.saved = TurnPair(tr)
                /\ tr.pushed = TurnPair(tr)
                /\ durable[tr.userId] = TurnPair(tr)
                /\ historyCache[tr.userId] = TurnPair(tr)

\* a turn that returned after a tool round whose raw last response differs
\* from the text returned
C5_Witness ==
    \E t \in Turns :
        /\ turn[t].pc = "returned"
        /\ turn[t].rounds >= 1
        /\ turn[t].cleaned # Last(turn[t].responses)
        /\ durable[turn[t].userId] = TurnPair(turn[t])

\* C6: when a write to the durable store fails, chat rejects and the user's
\* cache is as it was before the turn.
C6_FailedWriteLeavesCache ==
    \A t \in Turns :
        (turn[t].pc = "rejected" /\ turn[t].err = "store") =>
            historyCache[turn[t].userId] = turn[t].history

\* C7: when a model call fails, in a round or as the forced final call,
\* chat rejects and the turn has pushed nothing to the cache and written
\* nothing to the store: both are as they were before the turn.
C7_FailedModelCallPersistsNothing ==
    \A t \in Turns :
        LET tr == turn[t]
        IN  (tr.pc = "rejected" /\ tr.err = "llm") =>
                /\ tr.pushed = <<>>
                /\ tr.saved = <<>>
                /\ historyCache[tr.userId] = tr.history
                /\ durable[tr.userId] = <<>>

\* a turn rejected by a failed model call after a round that executed a tool
C7_Witness ==
    \E t \in Turns :
        /\ turn[t].pc = "rejected"
        /\ turn[t].err = "llm"
        /\ turn[t].rounds >= 1
        /\ \E i \in 1..Len(turn[t].toolLog) : turn[t].toolLog[i].ev = "execute"

\* the number of elements of text q that are the word w
RECURSIVE Count(_, _)
Count(q, w) ==
    IF Len(q) = 0 THEN 0 ELSE (IF q[1] = w THEN 1 ELSE 0) + Count(Tail(q), w)

\* the outcomes of the round that are failures
Failures(outcomes) == {i \in 1..Len(outcomes) : outcomes[i] # "success"}

\* C8: no outcome of a tool request makes chat reject: chat rejects only
\* for a failed call of the model or the store; and after a round, while the
\* next model call is awaited, every request of the round has an outcome and
\* the last message is a user message that reports one error per request
\* that was unknown, rejected, threw, timed out or reported failure.
C8_ToolFailuresBecomeFeedback ==
    \A t \in Turns :
        LET tr == turn[t]
        IN  /\ tr.pc = "rejected" => tr.err \in {"preferences", "llm", "store"}
            /\ (tr.pc \in {"llm", "final"} /\ tr.rounds >= 1) =>
                    /\ Len(tr.llmCalls) = tr.rounds + 1
                    /\ Len(tr.outcomes) = Len(tr.toolCalls)
                    /\ Last(tr.messages).role = "user"
                    /\ Count(Last(tr.messages).content, "Error:")
                           = Cardinality(Failures(tr.outcomes))

\* the next model call is awaited after a round whose two requests were an
\* unknown tool and a tool that timed out
C8_Witness ==
    \E t \in Turns :
        /\ turn[t].pc \in {"llm", "final"}
        /\ turn[t].outcomes = <<"unknown_tool", "timed out">>

\* C9: the observer is never passed a character that lies at or after the
\* first <tool_call> of the response it is streamed from.
C9_NothingForwardedPastMarker ==
    \A t \in Turns :
        \A i \in 1..Len(turn[t].sent) :
            LET e == turn[t].sent[i]
                r == IF e.call <= Len(turn[t].responses)
                     THEN turn[t].responses[e.call] ELSE <<>>
                marker == IndexFrom(r, OpenTag, 1)
            IN  marker # 0 => e.at + Len(e.text) - 1 < marker

\* the text holds a fenced json block with "tool_calls" in it
HasToolCallsBlock(text) == BlockMarkupMatch(text, 1).at # 0

\* C10: the text chat returns holds no open tag, no close tag and no fenced
\* json tool_calls block.
C10_ReturnedTextHasNoMarkup ==
    \A t \in Turns :
        turn[t].pc = "returned" =>
            /\ ~Includes(turn[t].cleaned, OpenTag)
            /\ ~Includes(turn[t].cleaned, CloseTag)
            /\ ~HasToolCallsBlock(turn[t].cleaned)

\* the text q holds the word w
Holds(q, w) == \E i \in 1..Len(q) : q[i] = w

\* C11: the feedback for a request that names an unknown tool lists every
\* tool registered at the moment the request is processed, the tools
\* registered through addTool while an earlier call of the round was
\* executing among them, and does not list the unknown name.
C11_UnknownToolListsRegistry ==
    \A t \in Turns :
        LET tr == turn[t]
        IN  \A k \in 1..Len(tr.toolLog) :
                LET e == tr.toolLog[k]
                IN  (/\ e.ev = "result"
                     /\ e.round = tr.iterations
                     /\ e.i <= Len(tr.outcomes)
                     /\ tr.outcomes[e.i] = "unknown_tool") =>
                        /\ \A j \in 1..Len(e.registry) :
                               Holds(tr.results[e.i], e.registry[j])
                        /\ ~Holds(SubSeq(tr.results[e.i], 4, Len(tr.results[e.i])), e.name)

\* the indices of the log entries of turn tr that record event ev for
\* request i of round r
EventsOf(tr, ev, r, i) ==
    {k \in 1..Len(tr.toolLog) :
        /\ tr.toolLog[k].ev = ev
        /\ tr.toolLog[k].round = r
        /\ tr.toolLog[k].i = i}

\* the requests parsed from the response of round r
RequestsOf(tr, r) == parseToolCalls(tr.responses[r])

\* the tool-executing round of the turn has ended and the next model call
\* is awaited
RoundEnded(tr) == tr.pc \in {"llm", "final"} /\ tr.rounds >= 1

\* C12: with an onToolCall observer, every parsed request is announced
\* exactly once, with its tool name, before its execute is invoked or its
\* result is pushed, the requests whose tool is unknown or whose execution
\* then fails included.
C12_ObserverToldOncePerRequest ==
    \A t \in Turns :
        LET tr == turn[t]
        IN  tr.onToolCall =>
                /\ \A k \in 1..Len(tr.toolLog) :
                       LET e == tr.toolLog[k]
                           told == EventsOf(tr, "onToolCall", e.round, e.i)
                       IN  /\ Cardinality(told) = 1
                           /\ \A j \in told :
                                  /\ j <= k
                                  /\ tr.toolLog[j].name
                                         = NameText(RequestsOf(tr, e.round)[e.i].name)
                /\ \A r \in 1..tr.rounds :
                       \A i \in 1..Len(RequestsOf(tr, r)) :
                           Cardinality(EventsOf(tr, "onToolCall", r, i)) = 1

\* a round has ended in which the observer was told of a tool that then
\* threw and of a tool that is unknown
C12_Witness ==
    \E t \in Turns :
        /\ turn[t].onToolCall
        /\ RoundEnded(turn[t])
        /\ turn[t].outcomes = <<"threw", "unknown_tool">>
        /\ EventsOf(turn[t], "onToolCall", turn[t].rounds, 2) # {}

\* the result the loop pushes for request i of the round that has ended
ExpectedResult(tr, i) ==
    LET name == NameText(tr.toolCalls[i].name)
    IN  IF tr.outcomes[i] = "unknown_tool"
        THEN formatToolError("unknown_tool", name, "", "", tr.availableToolNames)
        ELSE ResultOf(tr.outcomes[i], name)

\* C13: in a round the requests are executed one after another in the
\* order the parser yields them: the execute of a request is invoked only
\* after every earlier request of the round has its result; every request
\* is attempted whatever became of the earlier ones; and the feedback
\* message holds one result per request, in that order.
C13_SequentialInOrder ==
    \A t \in Turns :
        LET tr == turn[t]
        IN  /\ \A k \in 1..Len(tr.toolLog) :
                   LET e == tr.toolLog[k]
                   IN  e.ev \in {"execute", "result"} =>
                           \A i \in 1..(e.i - 1) :
                               \E j \in EventsOf(tr, "result", e.round, i) : j < k
            /\ RoundEnded(tr) =>
                   /\ Len(tr.results) = Len(tr.toolCalls)
                   /\ Len(tr.outcomes) = Len(tr.toolCalls)
                   /\ \A i \in 1..Len(tr.toolCalls) :
                          /\ tr.results[i] = ExpectedResult(tr, i)
                          /\ Cardinality(EventsOf(tr, "result", tr.rounds, i)) = 1
                          /\ tr.outcomes[i] # "unknown_tool" =>
                                 Cardinality(EventsOf(tr, "execute", tr.rounds, i)) = 1
                   /\ LET joined == Join(tr.results, "\n\n")
                          content == Last(tr.messages).content
                      IN  /\ content[1] = "Tool results:\n"
                          /\ SubSeq(content, 2, 1 + Len(joined)) = joined
                          /\ Len(content) = 2 + Len(joined)

\* a round of two requests has ended whose first execute timed out and
\* whose second request still has its result
C13_Witness ==
    \E t \in Turns :
        /\ RoundEnded(turn[t])
        /\ Len(turn[t].toolCalls) = 2
        /\ turn[t].outcomes[1] = "timed out"
        /\ Len(turn[t].results) = 2

\* the turn has parsed the response of its first model call
Parsed(tr) == Len(tr.responses) >= 1 /\ tr.pc \notin {"idle", "prefs", "llm"}

\* C14: a request is yielded only when its name is a non-empty string and
\* its arguments value is a key-value object, in each of the three formats.
C14_OnlyWellFormedRequests ==
    \A t \in Turns :
        Parsed(turn[t]) =>
            \A i \in 1..Len(RequestsOf(turn[t], 1)) :
                LET call == RequestsOf(turn[t], 1)[i]
                IN  /\ call.name.t = "string"
                    /\ call.name.s # "\"\""
                    /\ call.arguments.t = "object"

\* the one request of a call of shell whose arguments nest d deep
ShellRequest(d) ==
    <<[name |-> [t |-> "string", s |-> "\"shell\"", e |-> <<>>],
       arguments |-> JSONParse(ArgsDepth(d)).v]>>

\* C15: an unclosed tag followed by a valid call object and any prose,
\* prose with braces included, yields exactly that one request, at every
\* nesting depth of the arguments.
C15_UnclosedCallRecovered ==
    \A t \in Turns :
        \A d \in 1..MaxDepth, prose \in Proses :
            (Parsed(turn[t]) /\ turn[t].responses[1] = UnclosedText(d, prose)) =>
                RequestsOf(turn[t], 1) = ShellRequest(d)

\* the requests of the valid occurrences among the kinds, in order
RECURSIVE ValidOf(_)
ValidOf(kinds) ==
    IF Len(kinds) = 0 THEN <<>>
    ELSE (IF Head(kinds) \in {"shell", "nope"}
          THEN <<MkCall(JSONParse(PairContent(Head(kinds))).v)>>
          ELSE <<>>)
         \o ValidOf(Tail(kinds))

\* C16: of several closed occurrences, exactly the requests of the valid
\* ones are yielded, in text order; a malformed occurrence is skipped and
\* costs no other occurrence.
C16_MalformedPairSkipped ==
    \A t \in Turns :
        \A kinds \in KindSeqs(MaxPairs + 1) \ {<<>>} :
            (Parsed(turn[t]) /\ turn[t].responses[1] = PairsText(kinds)) =>
                RequestsOf(turn[t], 1) = ValidOf(kinds)

\* C17: a response that is one tag around content that is no valid JSON,
\* followed by plain prose, yields no request: no tool is executed and the
\* turn ends on that one model call.
C17_InvalidJsonEndsTurn ==
    \A t \in Turns :
        \A c \in BadContents, closed \in BOOLEAN :
            (/\ Parsed(turn[t])
             /\ ~JSONParse(c).ok
             /\ turn[t].responses[1] = SingleTagText(c, closed)) =>
                /\ RequestsOf(turn[t], 1) = <<>>
                /\ turn[t].toolLog = <<>>
                /\ Len(turn[t].llmCalls) = 1
                /\ turn[t].rounds = 0

\* the turn has cleaned the response of its last model call
Cleaned(tr) == tr.pc \in {"save1", "save2", "returned"}

\* C18: cleaning what cleanResponse returned changes nothing.
C18_CleanIsIdempotent ==
    \A t \in Turns :
        Cleaned(turn[t]) => cleanResponse(turn[t].cleaned) = turn[t].cleaned

\* the text holds a json fence whose block, up to the next fence, has
\* "tool_calls" in it
HasFencedToolCalls(text) ==
    \E b \in 1..Len(text) :
        /\ MatchAt(text, b, JsonFence)
        /\ LET c == IndexFrom(text, Fence, b + Len(JsonFence))
           IN  c # 0 /\ Holds(SubSeq(text, b + Len(JsonFence), c - 1), QToolCalls)

\* the text holds no open tag and no fenced json tool_calls block
NoMarkup(text) == ~Includes(text, OpenTag) /\ ~HasFencedToolCalls(text)

\* C19: a response without protocol markup is returned by cleanResponse as
\* it is, character for character.
C19_CleanKeepsPlainText ==
    \A t \in Turns :
        (Cleaned(turn[t]) /\ NoMarkup(Last(turn[t].responses))) =>
            turn[t].cleaned = Last(turn[t].responses)

\* the message list a turn on its own has built from the history h it
\* started with: the system prompt, h, the user message, and after its round
\* the raw response and the feedback for the results
MessagesAlone(h, tr) ==
    <<Entry("system", buildSystemPrompt(MapKeys(toolRegistry)))>>
    \o h
    \o <<Entry("user", tr.userMessage)>>
    \o (IF tr.rounds = 0 THEN <<>>
        ELSE <<Entry("assistant", tr.responses[1]),
               Entry("user",
                     <<"Tool results:\n">> \o Join(tr.results, "\n\n")
                     \o <<"\n\nContinue your response based on these results.">>)>>)

\* the cache of the user of a turn on its own that started from history h
CacheAlone(h, tr) ==
    IF tr.pc = "returned" THEN TrimCache(h \o tr.pushed) ELSE h \o tr.pushed

\* C20: with turns of user u2 interleaved at every await of a turn of user
\* u1, the messages u1's turn sends to the model, u1's cache and u1's durable
\* history are what that turn's own steps make of the history u1 started
\* with: no turn of u2 shows in them.
C20_UsersDoNotInterfere ==
    \E h \in {<<>>, OldTurn} :
        LET tr == turn[1]
        IN  /\ historyCache["u1"] = CacheAlone(h, tr)
            /\ durable["u1"] = h \o tr.saved
            /\ tr.pc \notin {"idle", "prefs"} =>
                   /\ tr.history = h
                   /\ tr.messages = MessagesAlone(h, tr)

\* u1's turn, after a tool round, and u2's turn are both between their
\* writes to the store, u2 with history of its own
C20_Witness ==
    /\ turn[1].pc = "save2"
    /\ turn[1].rounds = 1
    /\ turn[2].pc = "save2"
    /\ turn[2].userId = "u2"
    /\ turn[2].history = OldTurn
    /\ turn[1].history = <<>>

\* the index of the user entry of turn t in the sequence q, 0 when absent
RECURSIVE UserEntryAt(_, _, _)
UserEntryAt(q, t, i) ==
    IF i > Len(q) THEN 0
    ELSE IF q[i] = Entry("user", Msg(t)) THEN i
    ELSE UserEntryAt(q, t, i + 1)

\* C21: for every user, in every reachable state, a second turn of the
\* same user submitted while the first is suspended included, the turns'
\* entries stand in the durable history in the order the turns were
\* submitted, and entries that are in the cache and in the durable history
\* stand in the same order in both (turns are told apart by their user
\* entries, which are distinct).
C21_HistoryInSubmissionOrder ==
    \A s \in Turns, t \in Turns :
        (s < t /\ turn[s].userId = turn[t].userId /\ turn[t].userId # "") =>
            LET u == turn[t].userId
                ds == UserEntryAt(durable[u], s, 1)
                dt == UserEntryAt(durable[u], t, 1)
                cs == UserEntryAt(historyCache[u], s, 1)
                ct == UserEntryAt(historyCache[u], t, 1)
            IN  /\ (ds # 0 /\ dt # 0) => ds < dt
                /\ (ds # 0 /\ dt # 0 /\ cs # 0 /\ ct # 0) => (cs < ct <=> ds < dt)

\* the calls of chat for the user of the clearHistory that resolved, made
\* after clearHistory was called
ChatsAfterClear ==
    {t \in Turns : turn[t].pc # "idle" /\ turn[t].userId = clear.userId
                   /\ t \notin clear.before}

\* once clearHistory(u) has resolved: until a later chat of u records its
\* turn, u has no entry in the cache and none in the store; and the first
\* chat of u after it gives the model the system prompt and the user
\* message alone
ClearedInState ==
    clear.pc = "resolved" =>
        LET u == clear.userId
        IN  /\ (\A t \in ChatsAfterClear : turn[t].pushed = <<>>) =>
                   (historyCache[u] = <<>> /\ durable[u] = <<>>)
            /\ \A t \in ChatsAfterClear :
                   ((\A s \in ChatsAfterClear : t <= s) /\ turn[t].prompts # <<>>) =>
                       /\ turn[t].history = <<>>
                       /\ turn[t].prompts[1] =
                              <<Entry("system", buildSystemPrompt(MapKeys(toolRegistry))),
                                Entry("user", turn[t].userMessage)>>

\* a step of clearHistory(u), its start or its end, leaves the cache and the
\* store of every other user as they were
ClearFrameStep ==
    clear' # clear =>
        \A v \in Users \ {clear'.userId} :
            historyCache'[v] = historyCache[v] /\ durable'[v] = durable[v]

\* C22: after clearHistory(u) completes, user u has no cache entries and no
\* durable history entries, the next chat for u sends the model no
\* prior-turn history, and the cache and durable history of every other
\* user are unchanged.
C22_ClearRemovesOnlyThatUser == []ClearedInState /\ [][ClearFrameStep]_vars

\* a user with a recorded turn was cleared, and chat was called for that
\* user afterwards and reached the model
C22_Witness ==
    /\ clear.pc = "resolved"
    /\ \E s \in clear.before :
          turn[s].userId = clear.userId /\ Len(turn[s].saved) = 2
    /\ \E t \in ChatsAfterClear : turn[t].prompts # <<>>

RECURSIVE LastNamed(_, _)
\* the last tool of the list that has the name, undefined when none has
LastNamed(tools, name) ==
    IF Len(tools) = 0 THEN undefined
    ELSE IF tools[Len(tools)].name = name THEN tools[Len(tools)]
    ELSE LastNamed(SubSeq(tools, 1, Len(tools) - 1), name)

RegistryNames == {tool.name : tool \in RegistryTools} \cup {"nope"}

\* whichever list of tools gave createAgent the registry at hand, a lookup
\* finds the last tool of the list with the name
LookupAfterCreate ==
    \A tools \in ToolLists(MaxInitialTools) :
        toolRegistry = MapOf(tools, <<>>) =>
            \A name \in RegistryNames :
                MapGet(toolRegistry, name) = LastNamed(tools, name)

\* a step that registers a tool makes lookups of its name find it and leaves
\* the lookups of all other names as they were, and no other step changes
\* the registry
RegisterStep ==
    /\ \A tool \in RegistryTools :
          AddTool(tool) =>
              /\ MapGet(toolRegistry', tool.name) = tool
              /\ \A name \in RegistryNames \ {tool.name} :
                     MapGet(toolRegistry', name) = MapGet(toolRegistry, name)
    /\ toolRegistry' # toolRegistry => \E tool \in RegistryTools : AddTool(tool)

\* C23: after any sequence of registrations (the initial tools list of
\* createAgent followed by addTool calls), a lookup of a name in the tool
\* registry resolves to the most recently registered tool with that name,
\* and registering a tool leaves the entries of all other names unchanged.
C23_LastRegistrationWins == []LookupAfterCreate /\ [][RegisterStep]_vars

\* while the shellTool that a request resolved to executes, a plain object
\* was registered under its name, next to a tool of another name
C23_Witness ==
    /\ turn[1].pc = "tool"
    /\ turn[1].tool = DefinedTool("shell")
    /\ MapGet(toolRegistry, "shell") = PlainTool("shell")
    /\ MapGet(toolRegistry, "extra") = PlainTool("extra")

\* C29: for every registered tool (whether built with defineTool or
\* registered as a plain Tool object), a request whose arguments violate the
\* tool's declared schema never reaches the tool's execution body and yields
\* an InvalidArguments failure; and an InvalidArguments failure is reported
\* only for schema violations of the request arguments, never for an error
\* raised inside the tool's execution body.
C29_InvalidArgumentsIffSchemaViolation ==
    \A i \in 1..Len(turn[1].outcomes) :
        LET call == turn[1].toolCalls[i]
            result == turn[1].results[i]
            invalid == result[1] = "Error:" /\ result[2] = " Invalid arguments for "
        IN  turn[1].outcomes[i] # "unknown_tool" =>
                (invalid <=> ~shellParameters(call.arguments))

\* C24: in the message list of every model call of a turn, the order is: the
\* system prompt, then the user's prior-turn history, then all synthetic
\* tool-feedback turns produced so far in this turn, then the current user
\* message as the last element.
C24_UserMessageLast ==
    \A k \in 1..Len(turn[1].prompts) :
        LET tr == turn[1]
            p == tr.prompts[k]
            h == Len(tr.history)
        IN  /\ Len(p) = h + 2 * (k - 1) + 2
            /\ p[1].role = "system"
            /\ \A i \in 1..h : p[1 + i] = Entry(tr.history[i].role, tr.history[i].content)
            /\ \A j \in 1..(k - 1) :
                   /\ p[h + 2 * j] = Entry("assistant", tr.responses[j])
                   /\ p[h + 2 * j + 1].role = "user"
                   /\ p[h + 2 * j + 1].content[1] = "Tool results:\n"
            /\ Last(p) = Entry("user", tr.userMessage)

\* C25: within one turn the transcript only grows: the message list of model
\* call k+1 equals the message list of model call k followed by exactly two
\* messages, the raw (uncleaned) assistant response of call k and then one
\* user-role feedback message; no earlier message is removed, reordered or
\* altered.
C25_TranscriptOnlyGrows ==
    \A k \in 1..(Len(turn[1].prompts) - 1) :
        LET p == turn[1].prompts[k]
            q == turn[1].prompts[k + 1]
        IN  /\ Len(q) = Len(p) + 2
            /\ SubSeq(q, 1, Len(p)) = p
            /\ q[Len(p) + 1] = Entry("assistant", turn[1].responses[k])
            /\ q[Len(p) + 2].role = "user"
            /\ q[Len(p) + 2].content[1] = "Tool results:\n"

\* the model was called three times in the turn, after two rounds whose
\* responses carry markup that cleaning would remove
C25_Witness ==
    /\ Len(turn[1].prompts) = 3
    /\ \A k \in 1..2 : cleanResponse(turn[1].responses[k]) # turn[1].responses[k]

RECURSIVE ForwardedText(_, _)
\* the texts onChunk was called with during model call c, in order, joined
ForwardedText(sent, c) ==
    IF Len(sent) = 0 THEN <<>>
    ELSE (IF Head(sent).call = c THEN Head(sent).text ELSE <<>>)
         \o ForwardedText(Tail(sent), c)

\* C26: when an onChunk observer is supplied, the boundary detector starts
\* fresh for every model call of the turn: in each round, not only the first,
\* every chunk that arrives before <tool_call> has appeared in that response
\* is forwarded to the observer, independently of whether an earlier round
\* of the same turn detected a tool call. Here for the responses in which
\* <tool_call> never appears, all of whose chunks are to be forwarded.
C26_EveryRoundForwards ==
    \A c \in 1..Len(turn[1].responses) :
        (turn[1].llmCalls[c] = "chatStream" /\ ~Includes(turn[1].responses[c], OpenTag)) =>
            ForwardedText(turn[1].sent, c) = turn[1].responses[c]

\* the outcomes that are a Success
Successes == {"success", "success Error:"}

RetryHint ==
    "\n\nSome tool calls failed. You may retry with corrected arguments, try a different approach, or explain the issue to the user."

ContinueInstruction == "\n\nContinue your response based on these results."

\* C27: the feedback message of a round ends with the retry/explain hint if
\* and only if at least one outcome of that round is a Failure; when every
\* outcome is a Success (whatever the tool's output text is) the hint is
\* absent and the continue instruction is appended instead.
C27_HintIffFailure ==
    (turn[1].rounds >= 1 /\ turn[1].pc \in {"llm", "final"}) =>
        LET feedback == Last(turn[1].messages).content
            failed == \E i \in 1..Len(turn[1].outcomes) :
                          turn[1].outcomes[i] \notin Successes
        IN  /\ Len(turn[1].outcomes) = Len(turn[1].toolCalls)
            /\ Last(feedback) = (IF failed THEN RetryHint ELSE ContinueInstruction)
            /\ \A j \in 1..(Len(feedback) - 1) :
                   feedback[j] \notin {RetryHint, ContinueInstruction}

\* a round of two requests ended, both a Success, one with an output that
\* starts with "Error:"
C27_Witness ==
    /\ turn[1].rounds = 1
    /\ turn[1].pc = "final"
    /\ Len(turn[1].outcomes) = 2
    /\ \A i \in 1..2 : turn[1].outcomes[i] \in Successes
    /\ \E i \in 1..2 : turn[1].outcomes[i] = "success Error:"

\* z.number().default(30000): the timeout the execution of a shell request
\* is configured with
ConfiguredTimeout(arguments) ==
    IF Prop(arguments, "\"timeout\"").t = "number"
    THEN Prop(arguments, "\"timeout\"").s ELSE "30000"

\* C28: when a tool execution hits its timeout, the outcome given to the
\* model is a Timeout failure (not ExecutionFailed) whose details equal the
\* timeout value configured for that execution (for the shell tool, the
\* timeout argument of the call).
C28_TimeoutReportsConfiguredValue ==
    \A i \in 1..Len(turn[1].outcomes) :
        turn[1].outcomes[i] \in {"killed", "timed out"} =>
            turn[1].results[i] =
                formatToolError("timeout", NameText(turn[1].toolCalls[i].name),
                                "Command timed out",
                                ConfiguredTimeout(turn[1].toolCalls[i].arguments), <<>>)

\* the format whose piece in a mixed text a request comes from
FormatOfCall(call) ==
    CHOOSE f \in Formats : call.arguments = JSONParse(ArgsOfFormat(f)).v

\* C30: parseToolCalls tries the formats in the order closed tag, unclosed
\* tag, fenced json block, and returns the requests of the first format that
\* yields at least one valid request; requests expressed in a later format
\* in the same text are never added to the result.
C30_FirstFormatWins ==
    Parsed(turn[1]) =>
        LET r == turn[1].responses[1]
            got == parseToolCalls(r)
            closed == ClosedCalls(r, 1)
            open == OpenCalls(r, 1)
            block == BlockCalls(r, 1)
            winner == IF Len(closed) > 0 THEN "closed"
                      ELSE IF Len(open) > 0 THEN "open" ELSE "block"
        IN  /\ got = turn[1].toolCalls \/ Len(got) = 0
            /\ got = (CASE winner = "closed" -> closed
                        [] winner = "open" -> open
                        [] OTHER -> block)
            /\ r \in MixedTexts =>
                   \A i \in 1..Len(got) : FormatOfCall(got[i]) = winner

\* a text with valid requests in all three formats was parsed, and one
\* request came back
C30_Witness ==
    /\ Parsed(turn[1])
    /\ \E order \in FormatOrders :
          /\ Len(order) = 3
          /\ turn[1].responses[1] = MixedText(order, <<TRUE, TRUE, TRUE>>)
    /\ Len(turn[1].toolCalls) = 1

RECURSIVE ValidEntries(_)
\* the names of the valid entries among the kinds, in order
ValidEntries(kinds) ==
    IF Len(kinds) = 0 THEN <<>>
    ELSE (IF Head(kinds) \in {"shell", "nope"} THEN <<Head(kinds)>> ELSE <<>>)
         \o ValidEntries(Tail(kinds))

\* C31: for a fenced json block whose tool_calls array mixes valid and
\* invalid entries (including entries that are null or not objects),
\* parseToolCalls returns every valid entry in array order: an invalid entry
\* is skipped without preventing the entries after it from being yielded.
C31_InvalidEntriesSkipped ==
    Parsed(turn[1]) =>
        \A kinds \in EntrySeqs(MaxEntries) :
            turn[1].responses[1] = BlockArrayText(kinds) =>
                LET got == parseToolCalls(turn[1].responses[1])
                IN  [i \in 1..Len(got) |-> NameText(got[i].name)] = ValidEntries(kinds)

\* the last k entries of q, all of q when it has fewer
LastEntries(q, k) ==
    IF k >= Len(q) THEN q ELSE SubSeq(q, Len(q) - k + 1, Len(q))

\* C32: eviction is oldest-first and minimal: after a completed turn, the
\* user's cache equals the last min(2 x maxHistoryLength, n + 2) entries of
\* the sequence formed by the previous cache (n entries) followed by the new
\* user entry and the new assistant entry; no entry is dropped while the
\* cache is within its bound.
C32_EvictionOldestFirst ==
    \A t \in Turns :
        (turn[t].pc = "returned" /\ \A s \in Turns : s > t => turn[s].pushed = <<>>) =>
            historyCache[turn[t].userId] =
                LastEntries(turn[t].history \o TurnPair(turn[t]), 2 * maxHistoryLength)

\* a turn completed on a cache that was full, so that entries were evicted
C32_Witness ==
    \E t \in Turns :
        /\ turn[t].pc = "returned"
        /\ \A s \in Turns : s > t => turn[s].pushed = <<>>
        /\ maxHistoryLength = 1
        /\ Len(turn[t].history) = 2
        /\ historyCache[turn[t].userId] = TurnPair(turn[t])

\* C33: after loadHistory completes with no turn in flight, for every user
\* id known to the durable store the cache equals exactly the last
\* min(2 x maxHistoryLength, n) entries of that user's durable history of
\* length n, in the same order.
C33_LoadKeepsLastEntries ==
    (admin < MaxAdmin /\ load.pc = "idle" /\ \A t \in Turns : turn[t].pc = "idle") =>
        \A i \in 1..Len(getAllUserIds(durable)) :
            LET u == getAllUserIds(durable)[i]
            IN  historyCache[u] = LastEntries(durable[u], 2 * maxHistoryLength)

\* the part of response r that precedes its first <tool_call>, the whole of
\* r when it holds none
BeforeMarker(r) ==
    IF Includes(r, OpenTag) THEN SubSeq(r, 1, IndexFrom(r, OpenTag, 1) - 1) ELSE r

\* C34: in the first round of a turn with an onChunk observer, the
\* concatenation of everything passed to the observer is exactly the part of
\* the response that precedes the first <tool_call> (or the whole response
\* when the marker never appears): no character is forwarded twice and none
\* of that prefix is omitted, for every chunking of the response.
C34_FirstRoundForwardsPrefixOnce ==
    (Len(turn[1].responses) >= 1 /\ turn[1].llmCalls[1] = "chatStream") =>
        ForwardedText(turn[1].sent, 1) = BeforeMarker(turn[1].responses[1])

\* the keys of the JSON in which a response carries its requests
CallMarkup == {QName, QArguments, QToolCalls}

\* C35: no text forwarded to the live onChunk observer belongs to a tool call
\* that parseToolCalls then extracts and the loop executes, for every wire
\* format the parser accepts (closed tag, unclosed tag, fenced json
\* tool_calls block). Here: when the requests of a streamed response were
\* executed, nothing forwarded from that response holds a key of the JSON
\* of a request.
C35_NoCallTextForwarded ==
    \A c \in 1..Len(turn[1].responses) :
        (c <= turn[1].rounds /\ parseToolCalls(turn[1].responses[c]) # <<>>) =>
            \A i \in 1..Len(turn[1].sent) :
                turn[1].sent[i].call = c =>
                    \A k \in 1..Len(turn[1].sent[i].text) :
                        turn[1].sent[i].text[k] \notin CallMarkup

\* C36: in every message list passed to the model (llm.chat or
\* llm.chatStream, in every round and in the forced final call), exactly one
\* message has role system and it is the first, and the last message has
\* role user, as the model adapter requires.
C36_SystemFirstUserLast ==
    \A t \in Turns :
        \A c \in 1..Len(turn[t].prompts) :
            LET messages == turn[t].prompts[c]
            IN  /\ Len(messages) >= 2
                /\ messages[1].role = "system"
                /\ \A i \in 2..Len(messages) : messages[i].role # "system"
                /\ Last(messages).role = "user"

\* the forced final call of a turn that read a history of one earlier turn
\* and went through a tool round: system, two history entries, the user
\* message, the response of the round and its feedback
C36_Witness ==
    \E t \in Turns :
        /\ turn[t].pc = "final"
        /\ Len(turn[t].history) = 2
        /\ turn[t].rounds = 1
        /\ Len(Last(turn[t].prompts)) = 6

\* q has even length and its roles are user, assistant, user, assistant, ...
Alternates(q) ==
    /\ Len(q) % 2 = 0
    /\ \A i \in 1..Len(q) : q[i].role = (IF i % 2 = 1 THEN "user" ELSE "assistant")

\* C37: when turns of one user run one after another and durable writes
\* succeed, that user's cache always has even length and strictly alternates
\* user, assistant, user, assistant starting with a user entry, also after
\* eviction and after loadHistory, so the history part of every message list
\* consists of complete user/assistant pairs.
C37_CacheAlternates ==
    (\A t \in Turns : turn[t].err # "store") =>
        /\ \A u \in Users : Alternates(historyCache[u])
        /\ \A t \in Turns :
              \A c \in 1..Len(turn[t].prompts) :
                  Alternates(SubSeq(turn[t].prompts[c], 2, Len(turn[t].history) + 1))

\* loadHistory cut a stored history of two turns down to one, and a turn
\* that read it completed and evicted the loaded pair
C37_Witness ==
    \E t \in Turns :
        /\ admin < MaxAdmin
        /\ Len(durable["u1"]) >= 4
        /\ turn[t].pc = "returned"
        /\ turn[t].history = LastEntries(StoredTurns(MaxStored), 2)
        /\ historyCache["u1"] = TurnPair(turn[t])

\* C38: a turn is persisted to the durable store atomically: in every
\* reachable state reached after chat has returned or rejected, the durable
\* history of each user consists only of complete pairs (a user entry
\* immediately followed by its assistant entry); a failure of the second
\* durable write never leaves a user entry without its assistant entry.
C38_TurnPersistedAtomically ==
    (\A t \in Turns : ~InFlight(t)) =>
        \A u \in Users : Alternates(durable[u])
====
